---- MODULE Spec2Model ----
(***************************************************************************)
(* devWell: the GitHub client (lib/github), the commit sync                *)
(* (services/GitHubSyncService), the record stores with their five-minute  *)
(* caches (services/CommitService, SleepService, InsightService) and the   *)
(* relational tables they write to (the initial schema migration).         *)
(*                                                                         *)
(* Every async function is cut at its awaits: one action runs the code     *)
(* from one suspension point to the next.                                  *)
(***************************************************************************)
EXTENDS Integers, Sequences, FiniteSets, TLC

\* ------------------------------------------------------------- bounds
\* Call chains that can be in flight at the same time.
MaxTasks == 2

Tasks == 1..MaxTasks

\* ------------------------------------------------------------- values
Absent == "absent"                      \* null / undefined
Users == {"u1", "u2"}
Tokens == {"tokA", "tokB"}
Shas == {"s1", "s2"}

\* The auth collaborator's session: none, or an identity with its embedded
\* provider token (which may be missing from the session).
NoSession == [user |-> Absent, provider_token |-> Absent]
Sessions ==
    { NoSession,
      [user |-> "u1", provider_token |-> "tokA"],
      [user |-> "u1", provider_token |-> Absent],
      [user |-> "u2", provider_token |-> "tokB"] }

\* An activity event of the hosting API.  commitsKey says what the payload
\* holds under "commits": no such key, a null, or a list.
\* created_at is << >> for null, <<h>> for the hour h (hours since the epoch, UTC).
PushEvent(repo, created_at, shas) ==
    [type |-> "PushEvent", repo |-> repo, created_at |-> created_at,
     commitsKey |-> "list", commits |-> shas]
OtherEvent(type, repo) ==
    [type |-> type, repo |-> repo, created_at |-> <<10>>,
     commitsKey |-> "missing", commits |-> << >>]
NullPush(repo) ==
    [type |-> "PushEvent", repo |-> repo, created_at |-> <<10>>,
     commitsKey |-> "null", commits |-> << >>]

\* The event windows the hosting API can answer with.
EventWindows ==
    { << >>,
      << PushEvent("alpha", <<10>>, <<"s1", "s2">>) >>,
      << OtherEvent("WatchEvent", "beta"), PushEvent("alpha", << >>, <<"s2">>),
         NullPush("beta"), PushEvent("beta", <<34>>, << >>),
         PushEvent("alpha", <<34>>, <<"s2">>) >> }

VARIABLES
    session,         \* auth collaborator: the current session
    initialized,     \* GitHubService.initialized
    octokit,         \* GitHubService.octokit: the token it is bound to, or Absent
    boundBefore,     \* history: octokit was bound before the latest refreshToken() call
    refreshCalled,   \* history: refreshToken() has been called
    task,            \* the call chains in flight
    commit_records,  \* table commit_records
    sleep_records,   \* table sleep_records
    activity_insights, \* table activity_insights
    now,             \* Date.now(), in ticks
    cache,           \* per service instance: its cache Map
    calls,           \* history: the record store calls made so far, in the order issued
    ev,              \* history: number of calls issued and answered so far
    focus,           \* the record store class under test
    calc,            \* the figure a page computed last: function, arguments, value
    auth,            \* AuthProvider: its state and the mounted flag of its effect
    flow,            \* AuthProvider: the async functions in flight
    page,            \* the page component: its state
    load             \* the page component: the loads in flight

clientVars == <<session, initialized, octokit, boundBefore, refreshCalled>>
pageVars == <<page, load>>
uiVars == <<calc, auth, flow, page, load>>
storeRest == <<sleep_records, activity_insights, now, calls, ev, focus>>
storeVars == <<sleep_records, activity_insights, now, cache, calls, ev, focus>>
vars == <<session, initialized, octokit, boundBefore, refreshCalled, task, commit_records,
          sleep_records, activity_insights, now, cache, calls, ev, focus, calc,
          auth, flow, page, load>>

\* ------------------------------------------------------------- time
\* The clock counts ticks of two and a half minutes.
MsPerTick == 150 * 1000

\* new Date(): the current hour (hours since the epoch, UTC).
NowHours == (now * MsPerTick) \div (60 * 60 * 1000)

\* ------------------------------------------------------------- services
\* const commitService = new CommitService() of GitHubSyncService.
SyncCommitService == "GitHubSyncService.commitService"

\* The instances the modules create: each page and the sync have their own.
CommitServices == {SyncCommitService, "Commits.commitService"}
SleepServices == {"Sleep.sleepService", "Dashboard.sleepService"}
InsightServices == {"Reports.insightService", "Dashboard.insightService"}
Services == CommitServices \cup SleepServices \cup InsightServices

\* new Map(): no entry.
EmptyMap == << >>

\* Nothing computed yet.
NoCalc == [fn |-> "none", in |-> << >>, out |-> << >>]

\* AuthProvider as constructed: useState(null), useState(true), useState(true),
\* and no async function of it running.
MaxFlows == 2
Flows == 1..MaxFlows
IdleFlow ==
    [kind |-> "none", pc |-> "idle", user |-> Absent, t |-> 0, sync |-> "none",
     githubInitialized |-> "none", toast |-> "none"]
NewAuth == [mounted |-> TRUE, user |-> Absent, loading |-> TRUE, isInitializing |-> TRUE]
AuthIdle ==
    /\ auth = NewAuth
    /\ flow = [f \in Flows |-> IdleFlow]

\* A page as constructed, and no load of it running.
MaxLoads == 2
Loads == 1..MaxLoads
IdleLoad == [pc |-> "idle", showRefreshToast |-> FALSE, got |-> << >>, failed |-> FALSE]
NewPage(kind) ==
    [kind |-> kind, mounted |-> TRUE, loading |-> TRUE, refreshing |-> FALSE,
     error |-> Absent, data |-> << >>, githubConnected |-> FALSE,
     toasts |-> {}, updatedAfterUnmount |-> FALSE]
PagesIdle ==
    /\ page = NewPage("Dashboard")
    /\ load = [l \in Loads |-> IdleLoad]

\* ------------------------------------------------------------- helpers
RECURSIVE SelectSeq2(_, _)
\* data.filter(...) of getCommits: events of type PushEvent whose payload has
\* a "commits" key.
IsPushWithCommits(e) == e.type = "PushEvent" /\ e.commitsKey # "missing"

SelectSeq2(s, i) ==
    IF i > Len(s) THEN << >>
    ELSE IF IsPushWithCommits(s[i]) THEN <<s[i]>> \o SelectSeq2(s, i + 1)
    ELSE SelectSeq2(s, i + 1)

FilterPushEvents(data) == SelectSeq2(data, 1)

RECURSIVE CommitsOf(_, _)
\* the two nested loops of syncCommits, as the sequence of inserts they make:
\* an event whose payload.commits is falsy is skipped.
CommitsOf(events, i) ==
    IF i > Len(events) THEN << >>
    ELSE (IF events[i].commitsKey = "list"
          THEN [k \in 1..Len(events[i].commits) |->
                   [repository |-> events[i].repo,
                    created_at |-> events[i].created_at,
                    commit_hash |-> events[i].commits[k]]]
          ELSE << >>) \o CommitsOf(events, i + 1)

InsertsOf(events) == CommitsOf(events, 1)

IdleTask ==
    [kind |-> "none", pc |-> "idle", user |-> Absent, client |-> Absent,
     stale |-> FALSE, afterRefresh |-> FALSE, asked |-> FALSE, fetched |-> FALSE, queue |-> << >>, events |-> << >>,
     res |-> "none", wf |-> FALSE, cf |-> FALSE, okAfterCf |-> FALSE]

Set(t, r) == task' = [task EXCEPT ![t] = r]

\* A call chain can start where none is in flight: its caller has the outcome
\* of the one before.
Free(t) == task[t].pc \in {"idle", "done"}

\* How a call chain of this kind ends when `err` is thrown inside it:
\* syncCommits catches everything and returns false, the GitHubService
\* methods let it reach their caller.
Thrown(tk, err) ==
    [tk EXCEPT !.pc = "done", !.res = IF tk.kind = "syncCommits" THEN "false" ELSE err]

\* ------------------------------------------------------------- Token Provider
\* getGitHubToken(): the provider token of the current session, or absent.
getGitHubToken == session.provider_token

\* ------------------------------------------------------------- GitHubService
\* initialize() up to `await getGitHubToken()`.
initialize_alwaysRebinds(t) ==
    /\ Free(t)
    /\ Set(t, [IdleTask EXCEPT !.kind = "initialize", !.pc = "init", !.asked = TRUE])
    /\ UNCHANGED <<clientVars, commit_records, storeVars, uiVars>>

initialize(t) ==
    /\ Free(t)
    /\ IF initialized
       THEN Set(t, [IdleTask EXCEPT !.kind = "initialize", !.pc = "done", !.res = "ok"])
       ELSE Set(t, [IdleTask EXCEPT !.kind = "initialize", !.pc = "init", !.asked = TRUE])
    /\ UNCHANGED <<clientVars, commit_records, storeVars, uiVars>>

\* The request a method issues once ensureInitialized() has handed it the
\* REST client: it is made with the token that client is bound to.
IssueRequest(tk, client, wasBoundBefore) ==
    [tk EXCEPT !.pc = "request", !.client = client, !.stale = wasBoundBefore,
               !.afterRefresh = refreshCalled]

\* The request of a call chain has been answered: it is in flight no more.
Answered(tk) ==
    [tk EXCEPT !.client = Absent, !.stale = FALSE, !.afterRefresh = FALSE]

\* initialize() from `await getGitHubToken()` on, and what its caller does
\* with the outcome up to the caller's next suspension.
initializeResume_flagBeforeCheck(t) ==
    /\ task[t].pc = "init"
    /\ LET token == getGitHubToken IN
       IF token = Absent
       THEN /\ Set(t, Thrown(task[t], "NoTokenError"))
            /\ initialized' = TRUE
            /\ UNCHANGED <<octokit, boundBefore, refreshCalled>>
       ELSE /\ octokit' = token
            /\ initialized' = TRUE
            /\ boundBefore' = FALSE
            /\ UNCHANGED refreshCalled
            /\ IF task[t].kind \in {"initialize", "refreshToken"}
               THEN Set(t, [task[t] EXCEPT !.pc = "done", !.res = "ok"])
               ELSE Set(t, IssueRequest(task[t], token, FALSE))
    /\ UNCHANGED <<session, commit_records, storeVars, uiVars>>

initializeResume(t) ==
    /\ task[t].pc = "init"
    /\ LET token == getGitHubToken IN
       IF token = Absent
       THEN /\ Set(t, Thrown(task[t], "NoTokenError"))
            /\ UNCHANGED <<initialized, octokit, boundBefore, refreshCalled>>
       ELSE /\ octokit' = token
            /\ initialized' = TRUE
            /\ boundBefore' = FALSE
            /\ UNCHANGED refreshCalled
            /\ IF task[t].kind \in {"initialize", "refreshToken"}
               THEN Set(t, [task[t] EXCEPT !.pc = "done", !.res = "ok"])
               ELSE Set(t, IssueRequest(task[t], token, FALSE))
    /\ UNCHANGED <<session, commit_records, storeVars, uiVars>>

\* ensureInitialized() up to its first suspension, for a method of `kind`.
ensureInitialized_anyClient(t, kind, user) ==
    LET tk == [IdleTask EXCEPT !.kind = kind, !.user = user] IN
    IF octokit = Absent
    THEN Set(t, [tk EXCEPT !.pc = "init"])
    ELSE Set(t, IssueRequest(tk, octokit, boundBefore))

ensureInitialized(t, kind, user) ==
    LET tk == [IdleTask EXCEPT !.kind = kind, !.user = user] IN
    IF ~initialized
    THEN Set(t, [tk EXCEPT !.pc = "init"])
    ELSE IF octokit = Absent
    THEN Set(t, Thrown(tk, "NotInitializedError"))
    ELSE Set(t, IssueRequest(tk, octokit, boundBefore))

\* getCommits(since) up to its first suspension.
getCommits(t) ==
    /\ Free(t)
    /\ ensureInitialized(t, "getCommits", Absent)
    /\ UNCHANGED <<clientVars, commit_records, storeVars, uiVars>>

\* getUserProfile() up to its first suspension.
getUserProfile(t) ==
    /\ Free(t)
    /\ ensureInitialized(t, "getUserProfile", Absent)
    /\ UNCHANGED <<clientVars, commit_records, storeVars, uiVars>>

\* getCommits: the answer of listEventsForAuthenticatedUser arrives.
getCommitsResume(t) ==
    /\ task[t].kind = "getCommits"
    /\ task[t].pc = "request"
    /\ \/ \E data \in EventWindows :
             Set(t, [Answered(task[t]) EXCEPT !.pc = "done", !.res = "ok",
                                    !.fetched = TRUE,
                                    !.events = FilterPushEvents(data)])
       \/ Set(t, Thrown(Answered(task[t]), "FetchError"))
    /\ UNCHANGED <<clientVars, commit_records, storeVars, uiVars>>

\* getUserProfile: the answer of users.getAuthenticated arrives.
getUserProfileResume(t) ==
    /\ task[t].kind = "getUserProfile"
    /\ task[t].pc = "request"
    /\ \/ Set(t, [Answered(task[t]) EXCEPT !.pc = "done", !.res = "ok"])
       \/ Set(t, Thrown(Answered(task[t]), "FetchError"))
    /\ UNCHANGED <<clientVars, commit_records, storeVars, uiVars>>

\* refreshToken(): clears the flag and runs initialize() up to its await.
refreshToken_keepsFlag(t) ==
    /\ Free(t)
    /\ boundBefore' = (octokit # Absent)
    /\ IF initialized
       THEN Set(t, [IdleTask EXCEPT !.kind = "refreshToken", !.pc = "done", !.res = "ok"])
       ELSE Set(t, [IdleTask EXCEPT !.kind = "refreshToken", !.pc = "init", !.asked = TRUE])
    /\ refreshCalled' = TRUE
    /\ UNCHANGED <<session, initialized, octokit, commit_records, storeVars, uiVars>>

refreshToken(t) ==
    /\ Free(t)
    /\ initialized' = FALSE
    /\ boundBefore' = (octokit # Absent)
    /\ Set(t, [IdleTask EXCEPT !.kind = "refreshToken", !.pc = "init", !.asked = TRUE])
    /\ refreshCalled' = TRUE
    /\ UNCHANGED <<session, octokit, commit_records, storeVars, uiVars>>

\* The auth collaborator: sign-in, sign-out, token rotation.
AuthStateChange ==
    /\ \E s \in Sessions \ {session} : session' = s
    /\ UNCHANGED <<initialized, octokit, boundBefore, refreshCalled, task, commit_records, storeVars, uiVars>>

\* ------------------------------------------------------------- record stores
\* private CACHE_DURATION = 5 * 60 * 1000
CACHE_DURATION == (5 * 60 * 1000) \div MsPerTick

\* The clock stops here.
MaxClock == 2

\* Record store calls made in one behaviour, and awaiting the backing store
\* at the same time.
MaxCalls == 3
MaxInFlight == 2

\* Local time is UTC plus this many hours.
TimeZoneOffset == 2

StoreClasses == {"CommitService", "SleepService", "InsightService"}
ServicesOf(class) ==
    CASE class = "CommitService" -> CommitServices
      [] class = "SleepService" -> SleepServices
      [] class = "InsightService" -> InsightServices

\* The signed-in user of the pages, and the arguments the calls are made with
\* (hours since the epoch, UTC).
StoreUser == "u1"
Ranges == {<<0, 47>>}
StatsDates == {10}
CommitInserts ==
    {[user_id |-> StoreUser, repository |-> "alpha", commit_hash |-> "s1",
      commit_timestamp |-> 10]}
SleepInserts == {[user_id |-> StoreUser, date |-> 0, quality_score |-> 75]}
SleepUpdates == {[quality_score |-> 50]}
InsightUpserts == {[user_id |-> StoreUser, date |-> 0, commit_count |-> 3]}
InsightUpdates == {[commit_count |-> 4]}
NoRecord == [none |-> TRUE]

\* What a store method returns: T[], T | null, boolean, { count, hours }.
Rows(seq) == [tag |-> "rows", rows |-> seq, count |-> 0, hours |-> 0]
Row(r) == [tag |-> "row", rows |-> <<r>>, count |-> 0, hours |-> 0]
Null == [tag |-> "null", rows |-> << >>, count |-> 0, hours |-> 0]
Bool(b) == [tag |-> IF b THEN "true" ELSE "false", rows |-> << >>, count |-> 0, hours |-> 0]
Stats_swapped(c, h) == [tag |-> "stats", rows |-> << >>, count |-> h, hours |-> c]
Stats(c, h) == [tag |-> "stats", rows |-> << >>, count |-> c, hours |-> h]

\* date.toISOString().split('T')[0]: the UTC calendar day.
UtcDate(h) == h \div 24

\* setHours(0, 0, 0, 0) and setHours(23, 59, 59, 999): the bounds of the local
\* calendar day, as UTC hours (timestamps are whole hours).
StartOfDay_utc(h) == (h \div 24) * 24

StartOfDay(h) == ((h + TimeZoneOffset) \div 24) * 24 - TimeZoneOffset
EndOfDay(h) == StartOfDay(h) + 23

\* Date.getHours(): the local hour of the day.
getHours(h) == (h + TimeZoneOffset) % 24

\* .order(column, { ascending: false }): the orders the store can answer in.
Descending(S, column) ==
    {f \in [1..Cardinality(S) -> S] :
        \A i, j \in 1..Cardinality(S) :
            i < j => f[i] # f[j] /\ f[i][column] >= f[j][column]}

\* cached && Date.now() - cached.timestamp < this.CACHE_DURATION
Fresh_inclusive(svc, key) ==
    /\ key \in DOMAIN cache[svc]
    /\ now - cache[svc][key].timestamp <= CACHE_DURATION

Fresh(svc, key) ==
    /\ key \in DOMAIN cache[svc]
    /\ now - cache[svc][key].timestamp < CACHE_DURATION

\* this.cache.set(cacheKey, { data, timestamp: Date.now() })
CacheSet(svc, key, data) ==
    [cache EXCEPT ![svc] = (key :> [data |-> data, timestamp |-> now]) @@ cache[svc]]

\* this.cache.clear()
CacheClear_nothing(svc) == cache

CacheClear(svc) == [cache EXCEPT ![svc] = EmptyMap]

\* A call that has reached its await on the backing store.
Call(svc, op, key, a, b, rec) ==
    [svc |-> svc, op |-> op, key |-> key, a |-> a, b |-> b, rec |-> rec,
     at |-> now, s |-> ev + 1, e |-> 0, doneAt |-> 0,
     pc |-> "store", hit |-> FALSE, failed |-> FALSE, ret |-> Null]

\* The call returns.
Done(c, hit, failed, ret) ==
    [c EXCEPT !.pc = "done", !.hit = hit, !.failed = failed, !.ret = ret,
              !.e = ev + 1, !.doneAt = now]

InFlight(i, op) == i \in DOMAIN calls /\ calls[i].pc = "store" /\ calls[i].op = op

\* A read up to its return from the cache or its await on the backing store.
ReadCall(svc, op, key, a, b, hitValue) ==
    /\ Len(calls) < MaxCalls
    /\ Cardinality({i \in DOMAIN calls : calls[i].pc = "store"}) < MaxInFlight
    /\ ev' = ev + 1
    /\ calls' = Append(calls, IF Fresh(svc, key)
                              THEN Done(Call(svc, op, key, a, b, NoRecord),
                                        TRUE, FALSE, hitValue)
                              ELSE Call(svc, op, key, a, b, NoRecord))
    /\ UNCHANGED <<clientVars, uiVars, task, commit_records, sleep_records, activity_insights,
                   now, cache, focus>>

\* A read after its await: `if (error) return <onError>`, else the cache entry
\* is set and the data returned.
ReadAnswer(i, resp, onError, cacheData) ==
    /\ ev' = ev + 1
    /\ IF resp.error
       THEN /\ calls' = [calls EXCEPT ![i] = Done(@, FALSE, TRUE, onError)]
            /\ cache' = cache
       ELSE /\ calls' = [calls EXCEPT ![i] = Done(@, FALSE, FALSE, resp.data)]
            /\ cache' = CacheSet(calls[i].svc, calls[i].key, cacheData)
    /\ UNCHANGED <<clientVars, uiVars, task, commit_records, sleep_records, activity_insights,
                   now, focus>>

\* A write up to its await on the backing store.
WriteCall(svc, op, a, rec) ==
    /\ Len(calls) < MaxCalls
    /\ Cardinality({i \in DOMAIN calls : calls[i].pc = "store"}) < MaxInFlight
    /\ ev' = ev + 1
    /\ calls' = Append(calls, Call(svc, op, << >>, a, 0, rec))
    /\ UNCHANGED <<clientVars, uiVars, task, commit_records, sleep_records, activity_insights,
                   now, cache, focus>>

WriteAnswer_clearsAlways(i, resp, onError) ==
    /\ ev' = ev + 1
    /\ IF resp.error
       THEN calls' = [calls EXCEPT ![i] = Done(@, FALSE, TRUE, onError)]
       ELSE calls' = [calls EXCEPT ![i] = Done(@, FALSE, FALSE, resp.data)]
    /\ cache' = CacheClear(calls[i].svc)
    /\ UNCHANGED <<clientVars, uiVars, task, now, focus>>

\* A write after its await: `if (error) return <onError>`, else the whole
\* cache of the instance is cleared and the data returned.
WriteAnswer(i, resp, onError) ==
    /\ ev' = ev + 1
    /\ IF resp.error
       THEN /\ calls' = [calls EXCEPT ![i] = Done(@, FALSE, TRUE, onError)]
            /\ cache' = cache
       ELSE /\ calls' = [calls EXCEPT ![i] = Done(@, FALSE, FALSE, resp.data)]
            /\ cache' = CacheClear(calls[i].svc)
    /\ UNCHANGED <<clientVars, uiVars, task, now, focus>>

\* The backing store fails the request for a reason of its own.
Failure == [error |-> TRUE, data |-> Null]
Success(data) == [error |-> FALSE, data |-> data]

\* ------------------------------------------------------------- table commit_records
\* gen_random_uuid(): an id no other row has.  Rows that differ in user or
\* hash differ anyway, so only the copies of one (user, hash) are numbered.
NewId(rows, record) ==
    1 + Cardinality({r \in rows : r.user_id = record.user_id
                                  /\ r.commit_hash = record.commit_hash})

\* INSERT into commit_records: UNIQUE(user_id, commit_hash) rejects a second
\* row of the same user and hash; id is a fresh uuid.
InsertCommitRecord_noUnique(rows, record) ==
    [error |-> "none",
     rows |-> rows \cup {[id |-> NewId(rows, record), user_id |-> record.user_id,
                          repository |-> record.repository,
                          commit_hash |-> record.commit_hash,
                          commit_timestamp |-> record.commit_timestamp]}]

InsertCommitRecord_replaces(rows, record) ==
    LET kept == {r \in rows : r.commit_hash # record.commit_hash}
    IN [error |-> "none",
        rows |-> kept \cup {[id |-> NewId(rows, record), user_id |-> record.user_id,
                             repository |-> record.repository,
                             commit_hash |-> record.commit_hash,
                             commit_timestamp |-> record.commit_timestamp]}]

InsertCommitRecord(rows, record) ==
    IF \E r \in rows : r.user_id = record.user_id /\ r.commit_hash = record.commit_hash
    THEN [error |-> "unique_violation", rows |-> rows]
    ELSE [error |-> "none",
          rows |-> rows \cup {[id |-> NewId(rows, record), user_id |-> record.user_id,
                               repository |-> record.repository,
                               commit_hash |-> record.commit_hash,
                               commit_timestamp |-> record.commit_timestamp]}]

\* ------------------------------------------------------------- CommitService
\* addCommitRecord(record): what comes back from the insert.  `down` is a
\* backing store that fails the request for a reason of its own.  The value
\* returned is null exactly when error is set.
addCommitRecord(record, down) ==
    IF down
    THEN [error |-> "unavailable", rows |-> commit_records]
    ELSE InsertCommitRecord(commit_records, record)

\* ------------------------------------------------------------- GitHubSyncService
\* syncCommits(userId) up to its first suspension (inside getCommits).
syncCommits(t, userId) ==
    /\ Free(t)
    /\ ensureInitialized(t, "syncCommits", userId)
    /\ UNCHANGED <<clientVars, commit_records, storeVars, uiVars>>

\* syncCommits: getCommits returns or throws; the loops run up to the first
\* `await commitService.addCommitRecord`.
syncCommitsFetched(t) ==
    /\ task[t].kind = "syncCommits"
    /\ task[t].pc = "request"
    /\ \/ \E data \in EventWindows :
             LET commits == FilterPushEvents(data)
                 todo == InsertsOf(commits)
             IN Set(t, [Answered(task[t]) EXCEPT !.fetched = TRUE, !.events = commits,
                                       !.queue = todo,
                                       !.pc = IF todo = << >> THEN "done" ELSE "insert",
                                       !.res = IF todo = << >> THEN "true" ELSE "none"])
       \/ Set(t, Thrown(Answered(task[t]), "FetchError"))
    /\ UNCHANGED <<clientVars, commit_records, storeVars, uiVars>>

\* syncCommits after `await commitService.addCommitRecord(...)`: the value
\* returned is not looked at, the loop goes on with the next commit.
AfterAddCommitRecord_throwsOnNull(tk, ret) ==
    IF ret.error # "none"
    THEN [tk EXCEPT !.pc = "done", !.res = "false",
                    !.wf = tk.wf \/ ret.error = "unavailable",
                    !.cf = tk.cf \/ ret.error = "unique_violation"]
    ELSE [tk EXCEPT !.queue = Tail(tk.queue),
                    !.okAfterCf = tk.okAfterCf \/ tk.cf,
                    !.pc = IF Tail(tk.queue) = << >> THEN "done" ELSE "insert",
                    !.res = IF Tail(tk.queue) = << >> THEN "true" ELSE "none"]

AfterAddCommitRecord(tk, ret) ==
    [tk EXCEPT !.queue = Tail(tk.queue),
               !.wf = tk.wf \/ ret.error = "unavailable",
               !.cf = tk.cf \/ ret.error = "unique_violation",
               !.okAfterCf = tk.okAfterCf \/ (tk.cf /\ ret.error = "none"),
               !.pc = IF Tail(tk.queue) = << >> THEN "done" ELSE "insert",
               !.res = IF Tail(tk.queue) = << >> THEN "true" ELSE "none"]

\* One turn of the inner loop: the insert of the next commit is answered.
syncCommitsInsert(t) ==
    /\ task[t].kind = "syncCommits"
    /\ task[t].pc = "insert"
    /\ \E down \in BOOLEAN :
          LET c == Head(task[t].queue)
              ret == addCommitRecord(
                         [user_id |-> task[t].user,
                          commit_timestamp |-> IF c.created_at = << >>
                                               THEN NowHours ELSE c.created_at[1],
                          repository |-> c.repository,
                          commit_hash |-> c.commit_hash], down)
          IN /\ commit_records' = ret.rows
             /\ cache' = IF ret.error = "none" THEN CacheClear(SyncCommitService) ELSE cache
             /\ Set(t, AfterAddCommitRecord(task[t], ret))
    /\ UNCHANGED <<clientVars, storeRest, uiVars>>

\* The data of the entry under key, if any.
Cached(svc, key) == IF key \in DOMAIN cache[svc] THEN cache[svc][key].data ELSE Null

\* ------------------------------------------------------------- CommitService
\* getCommitRecords(userId, startDate, endDate) up to its return or await.
getCommitRecordsCall(svc, userId, startDate, endDate) ==
    /\ focus = "CommitService"
    /\ LET cacheKey == <<"records", userId, startDate, endDate>>
       IN ReadCall(svc, "getCommitRecords", cacheKey, startDate, endDate,
                   Cached(svc, cacheKey))

getCommitRecordsAnswer(i) ==
    /\ InFlight(i, "getCommitRecords")
    /\ LET found == {r \in commit_records :
                        /\ r.user_id = calls[i].key[2]
                        /\ r.commit_timestamp >= calls[i].a
                        /\ r.commit_timestamp <= calls[i].b}
       IN \E resp \in {Failure} \cup
                      {Success(Rows(f)) :
                          f \in Descending(found, "commit_timestamp")} :
             ReadAnswer(i, resp, Rows(<< >>), resp.data)

\* getCommitStats(userId, date) up to its return or await.
getCommitStatsCall(svc, userId, date) ==
    /\ focus = "CommitService"
    /\ LET cacheKey == <<"stats", userId, UtcDate(date), UtcDate(date)>>
       IN ReadCall(svc, "getCommitStats", cacheKey, date, date, Cached(svc, cacheKey))

getCommitStatsAnswer_throws(i) ==
    /\ InFlight(i, "getCommitStats")
    /\ LET data == {r \in commit_records :
                       /\ r.user_id = calls[i].key[2]
                       /\ r.commit_timestamp >= StartOfDay(calls[i].a)
                       /\ r.commit_timestamp <= EndOfDay(calls[i].a)}
           uniqueHours == Cardinality({getHours(r.commit_timestamp) : r \in data})
       IN \E resp \in {Failure, Success(Stats(Cardinality(data), uniqueHours))} :
             ReadAnswer(i, resp, [Null EXCEPT !.tag = "throw"], resp.data)

getCommitStatsAnswer(i) ==
    /\ InFlight(i, "getCommitStats")
    /\ LET data == {r \in commit_records :
                       /\ r.user_id = calls[i].key[2]
                       /\ r.commit_timestamp >= StartOfDay(calls[i].a)
                       /\ r.commit_timestamp <= EndOfDay(calls[i].a)}
           uniqueHours == Cardinality({getHours(r.commit_timestamp) : r \in data})
       IN \E resp \in {Failure, Success(Stats(Cardinality(data), uniqueHours))} :
             ReadAnswer(i, resp, Stats(0, 0), resp.data)

\* addCommitRecord(record) of a page or of the sync, up to its await.
addCommitRecordCall(svc, record) ==
    /\ focus = "CommitService"
    /\ WriteCall(svc, "addCommitRecord", 0, record)

addCommitRecordAnswer(i) ==
    /\ InFlight(i, "addCommitRecord")
    /\ \E down \in BOOLEAN :
          LET ret == addCommitRecord(calls[i].rec, down)
          IN /\ commit_records' = ret.rows
             /\ WriteAnswer(i, IF ret.error = "none"
                               THEN Success(Row(CHOOSE r \in ret.rows \ commit_records : TRUE))
                               ELSE Failure,
                            Null)
    /\ UNCHANGED <<sleep_records, activity_insights>>

\* ------------------------------------------------------------- SleepService
\* getSleepRecords(userId, startDate, endDate) up to its return or await.
getSleepRecordsCall(svc, userId, startDate, endDate) ==
    /\ focus = "SleepService"
    /\ LET cacheKey == <<"", userId, startDate, endDate>>
       IN ReadCall(svc, "getSleepRecords", cacheKey, startDate, endDate,
                   Cached(svc, cacheKey))

getSleepRecordsAnswer(i) ==
    /\ InFlight(i, "getSleepRecords")
    /\ LET found == {r \in sleep_records :
                        /\ r.user_id = calls[i].key[2]
                        /\ r.date >= UtcDate(calls[i].a)
                        /\ r.date <= UtcDate(calls[i].b)}
       IN \E resp \in {Failure} \cup
                      {Success(Rows(f)) : f \in Descending(found, "date")} :
             ReadAnswer(i, resp, Rows(<< >>), resp.data)

\* INSERT into sleep_records: UNIQUE(user_id, date); id is a fresh uuid.
InsertSleepRecord(rows, record, id) ==
    IF \E r \in rows : r.user_id = record.user_id /\ r.date = record.date
    THEN [error |-> TRUE, rows |-> rows]
    ELSE [error |-> FALSE,
          rows |-> rows \cup {[id |-> id, user_id |-> record.user_id,
                               date |-> record.date,
                               quality_score |-> record.quality_score]}]

addSleepRecordCall(svc, record) ==
    /\ focus = "SleepService"
    /\ WriteCall(svc, "addSleepRecord", 0, record)

addSleepRecordAnswer(i) ==
    /\ InFlight(i, "addSleepRecord")
    /\ \E down \in BOOLEAN :
          LET ret == IF down THEN [error |-> TRUE, rows |-> sleep_records]
                     ELSE InsertSleepRecord(sleep_records, calls[i].rec, ev + 1)
          IN /\ sleep_records' = ret.rows
             /\ WriteAnswer(i, IF ret.error THEN Failure
                               ELSE Success(Row(CHOOSE r \in ret.rows \ sleep_records : TRUE)),
                            Null)
    /\ UNCHANGED <<commit_records, activity_insights>>

updateSleepRecordCall(svc, recordId, updates) ==
    /\ focus = "SleepService"
    /\ WriteCall(svc, "updateSleepRecord", recordId, updates)

\* .update(updates).eq('id', recordId).select().single(): no row is an error.
updateSleepRecordAnswer(i) ==
    /\ InFlight(i, "updateSleepRecord")
    /\ LET target == {r \in sleep_records : r.id = calls[i].a}
           updated == {[r EXCEPT !.quality_score = calls[i].rec.quality_score] :
                          r \in target}
       IN \E down \in BOOLEAN :
             IF down \/ target = {}
             THEN /\ sleep_records' = sleep_records
                  /\ WriteAnswer(i, Failure, Null)
             ELSE /\ sleep_records' = (sleep_records \ target) \cup updated
                  /\ WriteAnswer(i, Success(Row(CHOOSE r \in updated : TRUE)), Null)
    /\ UNCHANGED <<commit_records, activity_insights>>

deleteSleepRecordCall(svc, recordId) ==
    /\ focus = "SleepService"
    /\ WriteCall(svc, "deleteSleepRecord", recordId, NoRecord)

\* .delete().eq('id', recordId): deleting no row is not an error.
deleteSleepRecordAnswer(i) ==
    /\ InFlight(i, "deleteSleepRecord")
    /\ \E down \in BOOLEAN :
          IF down
          THEN /\ sleep_records' = sleep_records
               /\ WriteAnswer(i, Failure, Bool(FALSE))
          ELSE /\ sleep_records' = {r \in sleep_records : r.id # calls[i].a}
               /\ WriteAnswer(i, Success(Bool(TRUE)), Bool(FALSE))
    /\ UNCHANGED <<commit_records, activity_insights>>

\* ------------------------------------------------------------- InsightService
\* getInsights(userId, startDate, endDate) up to its return or await.
getInsightsCall(svc, userId, startDate, endDate) ==
    /\ focus = "InsightService"
    /\ LET cacheKey == <<"", userId, startDate, endDate>>
       IN ReadCall(svc, "getInsights", cacheKey, startDate, endDate, Cached(svc, cacheKey))

getInsightsAnswer(i) ==
    /\ InFlight(i, "getInsights")
    /\ LET found == {r \in activity_insights :
                        /\ r.user_id = calls[i].key[2]
                        /\ r.date >= UtcDate(calls[i].a)
                        /\ r.date <= UtcDate(calls[i].b)}
       IN \E resp \in {Failure} \cup
                      {Success(Rows(f)) : f \in Descending(found, "date")} :
             ReadAnswer(i, resp, Rows(<< >>), resp.data)

\* cached.data[0] || null
FirstOrNull(data) == IF data.rows = << >> THEN Null ELSE Row(data.rows[1])

\* getLatestInsight(userId) up to its return or await.
getLatestInsightCall(svc, userId) ==
    /\ focus = "InsightService"
    /\ LET cacheKey == <<"latest", userId, 0, 0>>
       IN ReadCall(svc, "getLatestInsight", cacheKey, 0, 0,
                   FirstOrNull(Cached(svc, cacheKey)))

\* .order('date', { ascending: false }).limit(1).single(): no row is an error;
\* the entry set is [data].
getLatestInsightAnswer(i) ==
    /\ InFlight(i, "getLatestInsight")
    /\ LET found == {r \in activity_insights : r.user_id = calls[i].key[2]}
       IN \E resp \in {Failure} \cup
                      {Success(Row(f[1])) :
                          f \in {g \in Descending(found, "date") : found # {}}} :
             ReadAnswer(i, resp, Null, Rows(resp.data.rows))

upsertInsightCall(svc, insight) ==
    /\ focus = "InsightService"
    /\ WriteCall(svc, "upsertInsight", 0, insight)

\* activity_insights has a SELECT policy only: the insert of an authenticated
\* user is refused by row level security.
upsertInsightAnswer(i) ==
    /\ InFlight(i, "upsertInsight")
    /\ activity_insights' = activity_insights
    /\ WriteAnswer(i, Failure, Null)
    /\ UNCHANGED <<commit_records, sleep_records>>

updateInsightCall(svc, insightId, updates) ==
    /\ focus = "InsightService"
    /\ WriteCall(svc, "updateInsight", insightId, updates)

\* No UPDATE policy: the update touches no row, and .single() on no row is an
\* error.
updateInsightAnswer(i) ==
    /\ InFlight(i, "updateInsight")
    /\ activity_insights' = activity_insights
    /\ WriteAnswer(i, Failure, Null)
    /\ UNCHANGED <<commit_records, sleep_records>>

\* The external analysis process writes the insight of a day.
InsightDates == {0}
analysisWritesInsight(date) ==
    /\ focus = "InsightService"
    /\ ~\E r \in activity_insights : r.user_id = StoreUser /\ r.date = date
    /\ activity_insights' = activity_insights \cup
           {[id |-> 100 + date, user_id |-> StoreUser, date |-> date, commit_count |-> 3]}
    /\ UNCHANGED <<clientVars, uiVars, task, commit_records, sleep_records, now, cache, calls,
                   ev, focus>>

\* ------------------------------------------------------------- clock
\* Time passes.
Tick ==
    /\ now < MaxClock
    /\ now' = now + 1
    /\ UNCHANGED <<clientVars, uiVars, task, commit_records, sleep_records, activity_insights,
                   cache, calls, ev, focus>>

\* ------------------------------------------------------------- the client and the sync
\* After the modules are loaded: nothing bound, nothing cached, empty tables.
InitServices ==
    /\ initialized = FALSE
    /\ octokit = Absent
    /\ boundBefore = FALSE
    /\ refreshCalled = FALSE
    /\ task = [t \in Tasks |-> IdleTask]
    /\ commit_records = {}
    /\ sleep_records = {}
    /\ activity_insights = {}
    /\ now = 0
    /\ cache = [s \in Services |-> EmptyMap]
    /\ calls = << >>
    /\ ev = 0

InitRest ==
    /\ InitServices
    /\ calc = NoCalc
    /\ AuthIdle
    /\ PagesIdle

Init ==
    /\ session \in Sessions
    /\ InitRest
    /\ focus = "CommitService"

NextClient ==
    \/ \E t \in Tasks : initialize(t)
    \/ \E t \in Tasks : initializeResume(t)
    \/ \E t \in Tasks : getCommits(t)
    \/ \E t \in Tasks : getUserProfile(t)
    \/ \E t \in Tasks : getCommitsResume(t)
    \/ \E t \in Tasks : getUserProfileResume(t)
    \/ \E t \in Tasks : refreshToken(t)
    \/ AuthStateChange

SpecClient == Init /\ [][NextClient]_vars

NextSync ==
    \/ \E t \in Tasks : session.user # Absent /\ syncCommits(t, session.user)
    \/ \E t \in Tasks : initializeResume(t)
    \/ \E t \in Tasks : syncCommitsFetched(t)
    \/ \E t \in Tasks : syncCommitsInsert(t)

SpecSync == Init /\ [][NextSync]_vars

\* ------------------------------------------------------------- record stores alone
\* The three classes share no state: a behaviour exercises one of them, from
\* every instance the modules create of it.
InitStore ==
    /\ session = [user |-> StoreUser, provider_token |-> "tokA"]
    /\ InitRest
    /\ focus \in StoreClasses

\* The ids a page can name: those of the rows, or one of no row.
RecordIds(rows) == IF rows = {} THEN {0} ELSE {r.id : r \in rows}

\* The calls as the modules make them: the sync inserts commits, the Commits
\* page reads them, the Sleep page and the Dashboard read sleep records, the
\* Reports page reads insights and the Dashboard the latest one.  The methods
\* no module calls are made through the Sleep page's and the Reports page's
\* instances.
NextStore ==
    \/ \E r \in Ranges : getCommitRecordsCall("Commits.commitService", StoreUser, r[1], r[2])
    \/ \E d \in StatsDates : getCommitStatsCall("Commits.commitService", StoreUser, d)
    \/ \E record \in CommitInserts : addCommitRecordCall(SyncCommitService, record)
    \/ \E svc \in SleepServices, r \in Ranges :
          getSleepRecordsCall(svc, StoreUser, r[1], r[2])
    \/ \E record \in SleepInserts : addSleepRecordCall("Sleep.sleepService", record)
    \/ \E id \in RecordIds(sleep_records), updates \in SleepUpdates :
          updateSleepRecordCall("Sleep.sleepService", id, updates)
    \/ \E id \in RecordIds(sleep_records) : deleteSleepRecordCall("Sleep.sleepService", id)
    \/ \E r \in Ranges : getInsightsCall("Reports.insightService", StoreUser, r[1], r[2])
    \/ getLatestInsightCall("Dashboard.insightService", StoreUser)
    \/ \E insight \in InsightUpserts : upsertInsightCall("Reports.insightService", insight)
    \/ \E id \in RecordIds(activity_insights), updates \in InsightUpdates :
          updateInsightCall("Reports.insightService", id, updates)
    \/ \E i \in 1..MaxCalls :
          \/ getCommitRecordsAnswer(i)
          \/ getCommitStatsAnswer(i)
          \/ addCommitRecordAnswer(i)
          \/ getSleepRecordsAnswer(i)
          \/ addSleepRecordAnswer(i)
          \/ updateSleepRecordAnswer(i)
          \/ deleteSleepRecordAnswer(i)
          \/ getInsightsAnswer(i)
          \/ getLatestInsightAnswer(i)
          \/ upsertInsightAnswer(i)
          \/ updateInsightAnswer(i)
    \/ \E date \in InsightDates : analysisWritesInsight(date)
    \/ Tick

SpecStore == InitStore /\ [][NextStore]_vars

\* ------------------------------------------------------------- getCommitStats alone
\* The commit rows the table can hold when the page asks for its statistics:
\* up to three commits of the user, and one of another user.
StatsHours == {9, 10, 22}
StatsTables ==
    {{[id |-> k, user_id |-> StoreUser, repository |-> "alpha",
       commit_hash |-> <<"s1", "s2", "s3">>[k], commit_timestamp |-> at[k]] :
          k \in {n \in 1..3 : at[n] # 0}} \cup other :
        at \in [1..3 -> StatsHours \cup {0}],
        other \in {{}, {[id |-> 4, user_id |-> "u2", repository |-> "alpha",
                         commit_hash |-> "s1", commit_timestamp |-> 9]}}}
StatsProbeDates == {10, 21, 22}

InitStats ==
    /\ session = [user |-> StoreUser, provider_token |-> "tokA"]
    /\ initialized = FALSE
    /\ octokit = Absent
    /\ boundBefore = FALSE
    /\ refreshCalled = FALSE
    /\ task = [t \in Tasks |-> IdleTask]
    /\ commit_records \in StatsTables
    /\ sleep_records = {}
    /\ activity_insights = {}
    /\ now = 0
    /\ cache = [s \in Services |-> EmptyMap]
    /\ calls = << >>
    /\ ev = 0
    /\ focus = "CommitService"
    /\ calc = NoCalc
    /\ AuthIdle
    /\ PagesIdle

NextStats ==
    \/ \E d \in StatsProbeDates : getCommitStatsCall("Commits.commitService", StoreUser, d)
    \/ \E i \in 1..MaxCalls : getCommitStatsAnswer(i)

SpecStats == InitStats /\ [][NextStats]_vars

\* ------------------------------------------------------------- numbers
\* A JavaScript number is a binary floating-point number: every result of + - * /
\* is the representable number nearest to the exact one, ties to the even
\* mantissa. The model keeps MantissaBits significant bits where the engine
\* keeps 53, and writes a number as the fraction num / den, den > 0.
MantissaBits == 10

Frac(n, d) == [num |-> n, den |-> d]
Num(n) == Frac(n, 1)
Abs(x) == IF x < 0 THEN -x ELSE x
FracEq(x, y) == x.num * y.den = y.num * x.den
FracLeq(x, y) == x.num * y.den <= y.num * x.den

RoundHalfEven(n, d) ==
    LET f == n \div d
        r == n % d
    IN IF 2 * r < d THEN f
       ELSE IF 2 * r > d THEN f + 1
       ELSE IF f % 2 = 0 THEN f ELSE f + 1

RECURSIVE ScaleUp(_, _, _)
ScaleUp(n, d, k) ==
    IF n * 2^k >= 2^(MantissaBits - 1) * d THEN k ELSE ScaleUp(n, d, k + 1)

RECURSIVE ScaleDown(_, _, _)
ScaleDown(n, d, j) ==
    IF n < 2^MantissaBits * d * 2^j THEN j ELSE ScaleDown(n, d, j + 1)

RECURSIVE Reduce(_)
Reduce(x) ==
    IF x.den > 1 /\ x.num % 2 = 0 THEN Reduce(Frac(x.num \div 2, x.den \div 2)) ELSE x

\* The representable number nearest to n / d (d > 0).
Round(n, d) ==
    IF n = 0 THEN Num(0)
    ELSE LET a == Abs(n)
             sg == IF n < 0 THEN -1 ELSE 1
         IN IF a >= 2^MantissaBits * d
            THEN LET j == ScaleDown(a, d, 0)
                 IN Num(sg * RoundHalfEven(a, d * 2^j) * 2^j)
            ELSE LET k == ScaleUp(a, d, 0)
                 IN Reduce(Frac(sg * RoundHalfEven(a * 2^k, d), 2^k))

FloatAdd(x, y) == Round(x.num * y.den + y.num * x.den, x.den * y.den)
FloatSub(x, y) == Round(x.num * y.den - y.num * x.den, x.den * y.den)
FloatMul(x, y) == Round(x.num * y.num, x.den * y.den)
\* x / y for y # 0
FloatDiv(x, y) ==
    IF y.num > 0 THEN Round(x.num * y.den, x.den * y.num)
    ELSE Round(-(x.num * y.den), x.den * (-y.num))

\* array.reduce((sum, x) => sum + x, 0)
RECURSIVE ReduceSumFrom(_, _, _)
ReduceSumFrom(values, k, acc) ==
    IF k > Len(values) THEN acc
    ELSE ReduceSumFrom(values, k + 1, FloatAdd(acc, values[k]))
ReduceSum(values) == ReduceSumFrom(values, 1, Num(0))

\* A nullable number is << >> (null) or <<v>>;  x || 0.
OrZero(x) == IF x = << >> THEN 0 ELSE x[1]

\* ------------------------------------------------------------- Reports page
\* The rows a month's query returns to the Reports page.
MaxInsights == 3
ScoreValues == {<< >>, <<10>>, <<50>>, <<70>>}
MonthInsightRows ==
    {[sleep_score |-> s, productivity_score |-> p, commit_count |-> 3,
      active_hours |-> 2] : s \in ScoreValues, p \in ScoreValues}
SeqsUpTo(S, n) == UNION {[1..m -> S] : m \in 0..n}

SleepScores(data) == [k \in 1..Len(data) |-> Num(OrZero(data[k].sleep_score))]
ProductivityScores(data) ==
    [k \in 1..Len(data) |-> Num(OrZero(data[k].productivity_score))]
CommitCounts(data) == [k \in 1..Len(data) |-> Num(data[k].commit_count)]
ActiveHours(data) == [k \in 1..Len(data) |-> Num(data[k].active_hours)]

\* reduce(...) / length || 0: the quotient 0 / 0 is NaN, and NaN || 0 is 0.
AverageOrZero(values) ==
    IF Len(values) = 0 THEN Num(0)
    ELSE FloatDiv(ReduceSum(values), Num(Len(values)))

RECURSIVE ConsistencyLoop(_, _)
ConsistencyLoop(data, i) ==
    IF i > Len(data) THEN 0
    ELSE LET prevDay == data[i - 1]
             currentDay == data[i]
         IN (IF Abs(OrZero(prevDay.sleep_score) - OrZero(currentDay.sleep_score)) < 20
             THEN 1 ELSE 0)
            + (IF Abs(OrZero(prevDay.productivity_score)
                      - OrZero(currentDay.productivity_score)) < 20
               THEN 1 ELSE 0)
            + ConsistencyLoop(data, i + 1)

\* the loop with the differences taken signed
RECURSIVE ConsistencyLoop_signed(_, _)
ConsistencyLoop_signed(data, i) ==
    IF i > Len(data) THEN 0
    ELSE LET prevDay == data[i - 1]
             currentDay == data[i]
         IN (IF OrZero(prevDay.sleep_score) - OrZero(currentDay.sleep_score) < 20
             THEN 1 ELSE 0)
            + (IF OrZero(prevDay.productivity_score)
                  - OrZero(currentDay.productivity_score) < 20
               THEN 1 ELSE 0)
            + ConsistencyLoop_signed(data, i + 1)

calculateConsistencyScore_signed(data) ==
    IF Len(data) < 2 THEN Num(0)
    ELSE FloatMul(FloatDiv(Num(ConsistencyLoop_signed(data, 2)),
                           Num((Len(data) - 1) * 2)),
                  Num(100))

calculateConsistencyScore_fullForShort(data) ==
    IF Len(data) < 2 THEN Num(100)
    ELSE FloatMul(FloatDiv(Num(ConsistencyLoop(data, 2)), Num((Len(data) - 1) * 2)),
                  Num(100))

calculateConsistencyScore(data) ==
    IF Len(data) < 2 THEN Num(0)
    ELSE FloatMul(FloatDiv(Num(ConsistencyLoop(data, 2)), Num((Len(data) - 1) * 2)),
                  Num(100))

GoalsMet(data) ==
    Cardinality({k \in 1..Len(data) :
                    /\ OrZero(data[k].sleep_score) >= 70
                    /\ OrZero(data[k].productivity_score) >= 70})

\* The statistics loadMonthlyData derives from a month's insights.
MonthlyStats(monthInsights) ==
    [totalCommits |-> ReduceSum(CommitCounts(monthInsights)),
     avgSleep |-> AverageOrZero(SleepScores(monthInsights)),
     avgProductivity |-> AverageOrZero(ProductivityScores(monthInsights)),
     goalsMetCount |-> GoalsMet(monthInsights),
     activeHours |-> ReduceSum(ActiveHours(monthInsights)),
     consistencyScore |-> calculateConsistencyScore(monthInsights)]

othersThanCalc == <<clientVars, task, commit_records, storeVars, auth, flow, page, load>>

setMonthlyStats(monthInsights) ==
    /\ calc' = [fn |-> "setMonthlyStats", in |-> monthInsights,
                out |-> MonthlyStats(monthInsights)]
    /\ UNCHANGED othersThanCalc

getPercentageChange_zeroBase(current, previous) ==
    IF previous.num = 0 THEN Num(0)
    ELSE FloatMul(FloatDiv(FloatSub(current, previous), previous), Num(100))

getPercentageChange(current, previous) ==
    IF previous.num = 0 THEN Num(100)
    ELSE FloatMul(FloatDiv(FloatSub(current, previous), previous), Num(100))

MaxFigure == 6
renderTrend(current, previous) ==
    /\ LET change == getPercentageChange(Num(current), Num(previous))
       IN calc' = [fn |-> "renderTrend", in |-> <<current, previous>>,
                   out |-> [change |-> change,
                            Icon |-> IF change.num >= 0 THEN "ArrowUp" ELSE "ArrowDown"]]
    /\ UNCHANGED othersThanCalc

\* The selected month: January 1970, days 0 .. 30 since the epoch; day 0 is a
\* Thursday. Instants are UTC hours, as in the record stores.
MonthFirstDay == 0
MonthLastDay == 30
DaysPerWeek == 7
LocalMidnight(day) == day * 24 - TimeZoneOffset
LocalDayOf(h) == (h + TimeZoneOffset) \div 24
getDay(h) == (LocalDayOf(h) + 4) % DaysPerWeek
startOfWeek(h) == LocalMidnight(LocalDayOf(h) - getDay(h))
startOfMonth == LocalMidnight(MonthFirstDay)
endOfMonth == LocalMidnight(MonthLastDay) + 23

RECURSIVE WeeksFrom(_, _)
WeeksFrom(weekStart, last) ==
    IF weekStart > last THEN << >>
    ELSE <<weekStart>> \o WeeksFrom(weekStart + DaysPerWeek * 24, last)
eachWeekOfInterval(start, end) == WeeksFrom(startOfWeek(start), startOfWeek(end))

\* new Date(insight.date): midnight UTC of the row's day.
DateOf(day) == day * 24

\* insights.filter(...) of one week. The callback's second comparison moves
\* weekStart on by seven days each time the first comparison holds, and the
\* moved weekStart is what the next rows are compared with.
RECURSIVE WeekInsightsFrom(_, _, _)
WeekInsightsFrom(insights, k, weekStart) ==
    IF k > Len(insights) THEN << >>
    ELSE LET insightDate == DateOf(insights[k].date)
         IN IF insightDate >= weekStart
            THEN (IF insightDate < weekStart + DaysPerWeek * 24
                  THEN <<insights[k]>> ELSE << >>)
                 \o WeekInsightsFrom(insights, k + 1, weekStart + DaysPerWeek * 24)
            ELSE WeekInsightsFrom(insights, k + 1, weekStart)

weeklyData(insights) ==
    LET weeks == eachWeekOfInterval(startOfMonth, endOfMonth)
    IN [index \in 1..Len(weeks) |->
          LET weekInsights == WeekInsightsFrom(insights, 1, weeks[index])
          IN [week |-> index,
              weekInsights |-> weekInsights,
              commits |-> ReduceSum(CommitCounts(weekInsights)),
              sleep |-> AverageOrZero(SleepScores(weekInsights)),
              productivity |-> AverageOrZero(ProductivityScores(weekInsights)),
              activeHours |-> ReduceSum(ActiveHours(weekInsights))]]

\* The insights state of the Reports page: rows of distinct days of the month,
\* newest first, as getInsights orders them.
WeekInsightDays == {0, 2, 3, 12, 30}
WeekInsightRows ==
    {[date |-> d, commit_count |-> c, sleep_score |-> <<70>>,
      productivity_score |-> <<50>>, active_hours |-> c] :
        d \in WeekInsightDays, c \in {1, 2}}
InsightsStates ==
    {s \in SeqsUpTo(WeekInsightRows, MaxInsights) :
        \A k \in 1..(Len(s) - 1) : s[k].date > s[k + 1].date}

renderWeeklyData(insights) ==
    /\ calc' = [fn |-> "weeklyData", in |-> insights, out |-> weeklyData(insights)]
    /\ UNCHANGED othersThanCalc

\* ------------------------------------------------------------- Sleep page, Dashboard
\* Number(durationHours.toFixed(2)): a duration of h hundredths of an hour.
DurationHundredths == {555, 600, 750}
NumberOfHundredths(h) == Round(h, 100)
QualityValues == {<< >>, <<60>>, <<85>>}
SleepRows ==
    {[duration_hours |-> NumberOfHundredths(h), quality_score |-> q] :
        h \in DurationHundredths, q \in QualityValues}
MaxRecords == 3

Durations(records) == [k \in 1..Len(records) |-> records[k].duration_hours]
Qualities(records) == [k \in 1..Len(records) |-> Num(OrZero(records[k].quality_score))]

averageSleepDuration(sleepRecords) ==
    IF Len(sleepRecords) # 0
    THEN FloatDiv(ReduceSum(Durations(sleepRecords)), Num(Len(sleepRecords)))
    ELSE Num(0)

averageQuality_sum(sleepRecords) ==
    IF Len(sleepRecords) # 0 THEN ReduceSum(Qualities(sleepRecords)) ELSE Num(0)

averageQuality(sleepRecords) ==
    IF Len(sleepRecords) # 0
    THEN FloatDiv(ReduceSum(Qualities(sleepRecords)), Num(Len(sleepRecords)))
    ELSE Num(0)

renderSleep(sleepRecords) ==
    /\ calc' = [fn |-> "Sleep", in |-> sleepRecords,
                out |-> [averageSleepDuration |-> averageSleepDuration(sleepRecords),
                         averageQuality |-> averageQuality(sleepRecords)]]
    /\ UNCHANGED othersThanCalc

renderDashboard(sleepData) ==
    /\ calc' = [fn |-> "Dashboard", in |-> sleepData,
                out |-> [averageSleepDuration |->
                            IF Len(sleepData) # 0
                            THEN FloatDiv(ReduceSum(Durations(sleepData)),
                                          Num(Len(sleepData)))
                            ELSE Num(0)]]
    /\ UNCHANGED othersThanCalc

\* ------------------------------------------------------------- derived figures alone
\* A figure depends on its arguments alone, so each behaviour computes one
\* figure from arguments drawn afresh.
InitCalc ==
    /\ session = NoSession
    /\ InitRest
    /\ focus = "CommitService"

NextCalc ==
    /\ calc = NoCalc
    /\ \/ \E monthInsights \in SeqsUpTo(MonthInsightRows, MaxInsights) :
             setMonthlyStats(monthInsights)
       \/ \E current \in 0..MaxFigure, previous \in 0..MaxFigure :
             renderTrend(current, previous)
       \/ \E insights \in InsightsStates : renderWeeklyData(insights)
       \/ \E sleepRecords \in SeqsUpTo(SleepRows, MaxRecords) : renderSleep(sleepRecords)
       \/ \E sleepData \in SeqsUpTo(SleepRows, MaxRecords) : renderDashboard(sleepData)

SpecCalc == InitCalc /\ [][NextCalc]_vars

\* ------------------------------------------------------------- AuthProvider
\* A service call a flow awaits runs as a call chain; the flow goes on once
\* the chain is done. A chain can be started on a slot no other flow waits on.
\* A behaviour has MaxFlows flows: initializeAuth and the ones started later.
CanCall(f, t) == Free(t) /\ \A g \in Flows \ {f} : flow[g].t # t
Awaited(f) == flow[f].t # 0 /\ task[flow[f].t].pc = "done"
SetFlow(f, r) == flow' = [flow EXCEPT ![f] = r]

\* `finally { if (mounted) { setLoading(false); setIsInitializing(false) } }`
\* of initializeAuth, `finally { if (mounted) setLoading(false) }` of the
\* auth state handler.
Finally(kind, a) ==
    IF ~a.mounted THEN a
    ELSE [a EXCEPT !.loading = FALSE,
                   !.isInitializing = IF kind = "initializeAuth" THEN FALSE ELSE @]

\* githubService.initialize() up to its first suspension, on slot t.
githubService_initialize(t) ==
    IF initialized
    THEN Set(t, [IdleTask EXCEPT !.kind = "initialize", !.pc = "done", !.res = "ok"])
    ELSE Set(t, [IdleTask EXCEPT !.kind = "initialize", !.pc = "init", !.asked = TRUE])

\* initializeGitHub has returned githubInitialized to the flow that awaited it;
\* sync is what syncCommits had returned inside it, if it was called.
AfterInitializeGitHub(f, githubInitialized, sync) ==
    /\ SetFlow(f, [flow[f] EXCEPT
          !.pc = "done", !.t = 0, !.sync = sync,
          !.githubInitialized = IF githubInitialized THEN "true" ELSE "false",
          !.toast =
             IF flow[f].kind = "initializeAuth"
             THEN (IF githubInitialized THEN "none"
                   ELSE "Failed to initialize GitHub integration")
             ELSE (IF githubInitialized THEN "Successfully authenticated with GitHub"
                   ELSE "GitHub integration failed")])
    /\ auth' = Finally(flow[f].kind, auth)

\* initializeAuth from the answer of supabase.auth.getSession() on.
initializeAuth(f, t) ==
    /\ flow[f].kind = "initializeAuth" /\ flow[f].pc = "getSession"
    /\ \E error \in BOOLEAN :
          IF error
          THEN /\ SetFlow(f, [flow[f] EXCEPT !.pc = "done",
                                 !.toast = "Failed to initialize authentication"])
               /\ auth' = Finally("initializeAuth", auth)
               /\ UNCHANGED task
          ELSE IF session.user # Absent /\ auth.mounted
          THEN /\ auth' = [auth EXCEPT !.user = session.user]
               /\ CanCall(f, t)
               /\ githubService_initialize(t)
               /\ SetFlow(f, [flow[f] EXCEPT !.pc = "gh_init", !.t = t,
                                             !.user = session.user])
          ELSE /\ SetFlow(f, [flow[f] EXCEPT !.pc = "done"])
               /\ auth' = Finally("initializeAuth", auth)
               /\ UNCHANGED task
    /\ UNCHANGED <<clientVars, commit_records, storeVars, calc, pageVars>>

\* initializeGitHub after `await githubService.initialize()`.
initializeGitHubInitialized(f) ==
    /\ flow[f].pc = "gh_init" /\ Awaited(f)
    /\ IF task[flow[f].t].res = "ok"
       THEN /\ SetFlow(f, [flow[f] EXCEPT !.pc = "gh_token", !.t = 0])
            /\ UNCHANGED auth
       ELSE AfterInitializeGitHub(f, FALSE, "none")
    /\ UNCHANGED <<clientVars, task, commit_records, storeVars, calc, pageVars>>

\* initializeGitHub after `await getGitHubToken()`, up to the suspension inside
\* gitHubSyncService.syncCommits(session.user.id).
initializeGitHubToken(f, t) ==
    /\ flow[f].pc = "gh_token"
    /\ IF getGitHubToken = Absent
       THEN /\ AfterInitializeGitHub(f, FALSE, "none")
            /\ UNCHANGED task
       ELSE /\ CanCall(f, t)
            /\ ensureInitialized(t, "syncCommits", flow[f].user)
            /\ SetFlow(f, [flow[f] EXCEPT !.pc = "gh_sync", !.t = t])
            /\ UNCHANGED auth
    /\ UNCHANGED <<clientVars, commit_records, storeVars, calc, pageVars>>

\* initializeGitHub after `await gitHubSyncService.syncCommits(...)`: the value
\* is dropped and initializeGitHub returns true.
initializeGitHubSynced(f) ==
    /\ flow[f].pc = "gh_sync" /\ Awaited(f)
    /\ AfterInitializeGitHub(f, TRUE, task[flow[f].t].res)
    /\ UNCHANGED <<clientVars, task, commit_records, storeVars, calc, pageVars>>

\* The auth collaborator changes the session and calls the subscribed handler
\* with it; the handler runs up to its first suspension.
onAuthStateChange(f, t) ==
    /\ \E s \in Sessions \ {session} :
          /\ session' = s
          /\ IF ~auth.mounted
             THEN UNCHANGED <<auth, flow, task>>
             ELSE /\ flow[f].pc = "idle"
                  /\ IF s.user # Absent
                     THEN /\ auth' = [auth EXCEPT !.user = s.user]
                          /\ CanCall(f, t)
                          /\ githubService_initialize(t)
                          /\ SetFlow(f, [IdleFlow EXCEPT !.kind = "onAuthStateChange",
                                                        !.pc = "gh_init", !.t = t,
                                                        !.user = s.user])
                     ELSE /\ auth' = [auth EXCEPT !.user = Absent, !.loading = FALSE]
                          /\ SetFlow(f, [IdleFlow EXCEPT !.kind = "onAuthStateChange",
                                                        !.pc = "done",
                                                        !.toast = "Successfully signed out"])
                          /\ UNCHANGED task
    /\ UNCHANGED <<initialized, octokit, boundBefore, refreshCalled, commit_records,
                   storeVars, calc, pageVars>>

\* refreshToken of the context, up to the suspension inside
\* githubService.refreshToken().
AuthRefreshToken(f, t) ==
    /\ auth.mounted
    /\ flow[f].pc = "idle"
    /\ CanCall(f, t)
    /\ initialized' = FALSE
    /\ boundBefore' = (octokit # Absent)
    /\ refreshCalled' = TRUE
    /\ Set(t, [IdleTask EXCEPT !.kind = "refreshToken", !.pc = "init", !.asked = TRUE])
    /\ SetFlow(f, [IdleFlow EXCEPT !.kind = "refreshToken", !.pc = "rt_refresh", !.t = t,
                                  !.user = auth.user])
    /\ UNCHANGED <<session, octokit, auth, commit_records, storeVars, calc, pageVars>>

\* refreshToken after `await githubService.refreshToken()`.
AuthRefreshTokenRefreshed(f, t) ==
    /\ flow[f].pc = "rt_refresh" /\ Awaited(f)
    /\ IF task[flow[f].t].res # "ok"
       THEN /\ SetFlow(f, [flow[f] EXCEPT !.pc = "done", !.t = 0,
                                         !.toast = "Failed to refresh token"])
            /\ UNCHANGED task
       ELSE IF flow[f].user # Absent
       THEN /\ CanCall(f, t)
            /\ ensureInitialized(t, "syncCommits", flow[f].user)
            /\ SetFlow(f, [flow[f] EXCEPT !.pc = "rt_sync", !.t = t])
       ELSE /\ SetFlow(f, [flow[f] EXCEPT !.pc = "done", !.t = 0,
                                         !.toast = "Token refreshed successfully"])
            /\ UNCHANGED task
    /\ UNCHANGED <<clientVars, auth, commit_records, storeVars, calc, pageVars>>

\* refreshToken after `await gitHubSyncService.syncCommits(user.id)`.
AuthRefreshTokenSynced(f) ==
    /\ flow[f].pc = "rt_sync" /\ Awaited(f)
    /\ SetFlow(f, [flow[f] EXCEPT !.pc = "done", !.t = 0,
                                  !.sync = task[flow[f].t].res,
                                  !.toast = "Token refreshed successfully"])
    /\ UNCHANGED <<clientVars, auth, task, commit_records, storeVars, calc, pageVars>>

\* The cleanup of the effect.
AuthUnmount ==
    /\ auth.mounted
    /\ auth' = [auth EXCEPT !.mounted = FALSE]
    /\ UNCHANGED <<clientVars, flow, task, commit_records, storeVars, calc, pageVars>>

\* The provider has been mounted: initializeAuth() waits for getSession().
InitAuth ==
    /\ session \in Sessions
    /\ InitServices
    /\ focus = "CommitService"
    /\ calc = NoCalc
    /\ PagesIdle
    /\ auth = NewAuth
    /\ flow = [f \in Flows |->
                 IF f = 1 THEN [IdleFlow EXCEPT !.kind = "initializeAuth",
                                                !.pc = "getSession"]
                 ELSE IdleFlow]

NextAuth ==
    \/ \E f \in Flows, t \in Tasks : initializeAuth(f, t)
    \/ \E f \in Flows : initializeGitHubInitialized(f)
    \/ \E f \in Flows, t \in Tasks : initializeGitHubToken(f, t)
    \/ \E f \in Flows : initializeGitHubSynced(f)
    \/ \E f \in Flows, t \in Tasks : onAuthStateChange(f, t)
    \/ \E f \in Flows, t \in Tasks : AuthRefreshToken(f, t)
    \/ \E f \in Flows, t \in Tasks : AuthRefreshTokenRefreshed(f, t)
    \/ \E f \in Flows : AuthRefreshTokenSynced(f)
    \/ AuthUnmount
    \/ \E t \in Tasks : initializeResume(t)
    \/ \E t \in Tasks : syncCommitsFetched(t)
    \/ \E t \in Tasks : syncCommitsInsert(t)

SpecAuth == InitAuth /\ [][NextAuth]_vars

\* ------------------------------------------------------------- Dashboard, Reports
\* What the record store methods resolve to for a page. None of them rejects:
\* when the backing store reports an error they resolve to their empty value.
SleepRecordsRead == {"sleepRecords", "[]"}
CommitStatsRead == {"stats", "{ count: 0, hours: 0 }"}
LatestInsightRead == {"insight", "null"}
InsightsRead == {"insights", "[]"}
getSleepRecordsResolves(down) == IF down THEN {"[]"} ELSE SleepRecordsRead
getCommitStatsResolves(down) == IF down THEN {"{ count: 0, hours: 0 }"} ELSE CommitStatsRead
getLatestInsightResolves(down) == IF down THEN {"null"} ELSE LatestInsightRead
getInsightsResolves(down) == IF down THEN {"[]"} ELSE InsightsRead

\* A state setter is called: after the unmount that is an update of a
\* component that is gone.
Updated(p) == [p EXCEPT !.updatedAfterUnmount = @ \/ ~p.mounted]
SetLoad(l, r) == load' = [load EXCEPT ![l] = r]
othersThanPage == <<clientVars, task, commit_records, storeVars, calc, auth, flow>>

\* setError(null); setRefreshing(true) or setLoading(true): a load up to its
\* first await.
StartLoad(p, showRefreshToast) ==
    [Updated(p) EXCEPT !.error = Absent,
                       !.refreshing = IF showRefreshToast THEN TRUE ELSE @,
                       !.loading = IF showRefreshToast THEN @ ELSE TRUE]

\* The end of the try block and the finally block of a load.
EndLoad(p, showRefreshToast, message) ==
    [Updated(p) EXCEPT !.loading = FALSE, !.refreshing = FALSE,
                       !.toasts = IF showRefreshToast THEN @ \cup {message} ELSE @]

\* loadDashboardData(showRefreshToast) up to `await getSleepRecords(...)`.
loadDashboardData(l, showRefreshToast) ==
    /\ page.kind = "Dashboard" /\ page.mounted
    /\ load[l].pc = "idle"
    /\ page' = StartLoad(page, showRefreshToast)
    /\ SetLoad(l, [IdleLoad EXCEPT !.pc = "getSleepRecords",
                                   !.showRefreshToast = showRefreshToast])
    /\ UNCHANGED othersThanPage

\* ... from the sleep records to `await getCommitStats(...)`.
loadDashboardDataSleep(l) ==
    /\ load[l].pc = "getSleepRecords"
    /\ \E down \in BOOLEAN : \E sleepRecords \in getSleepRecordsResolves(down) :
          SetLoad(l, [load[l] EXCEPT !.pc = "getCommitStats",
                                     !.got = Append(@, sleepRecords),
                                     !.failed = @ \/ down])
    /\ UNCHANGED <<page, othersThanPage>>

\* ... from the commit stats to `await getLatestInsight(...)`.
loadDashboardDataStats(l) ==
    /\ load[l].pc = "getCommitStats"
    /\ \E down \in BOOLEAN : \E todayStats \in getCommitStatsResolves(down) :
          SetLoad(l, [load[l] EXCEPT !.pc = "getLatestInsight",
                                     !.got = Append(@, todayStats),
                                     !.failed = @ \/ down])
    /\ UNCHANGED <<page, othersThanPage>>

\* ... from the latest insight to the end: the four setters, the toast of a
\* refresh, the finally block.
loadDashboardDataInsight(l) ==
    /\ load[l].pc = "getLatestInsight"
    /\ \E down \in BOOLEAN : \E latestInsight \in getLatestInsightResolves(down) :
          LET got == Append(load[l].got, latestInsight)
              shown == [EndLoad(page, load[l].showRefreshToast, "Dashboard data refreshed")
                           EXCEPT !.data = got, !.githubConnected = TRUE]
          IN /\ page' = shown
             /\ SetLoad(l, [load[l] EXCEPT !.pc = "done", !.got = got,
                                           !.failed = @ \/ down])
    /\ UNCHANGED othersThanPage

\* loadMonthlyData(showRefreshToast) up to `await getInsights(start, end)`.
loadMonthlyData(l, showRefreshToast) ==
    /\ page.kind = "Reports" /\ page.mounted
    /\ load[l].pc = "idle"
    /\ page' = StartLoad(page, showRefreshToast)
    /\ SetLoad(l, [IdleLoad EXCEPT !.pc = "getInsights",
                                   !.showRefreshToast = showRefreshToast])
    /\ UNCHANGED othersThanPage

\* ... from the month's insights on: setInsights, setMonthlyStats, and for the
\* current month up to `await getInsights(prevStart, prevEnd)`, for another
\* month to the end.
loadMonthlyDataMonth(l) ==
    /\ load[l].pc = "getInsights"
    /\ \E down \in BOOLEAN, isSameMonth \in BOOLEAN :
       \E monthInsights \in getInsightsResolves(down) :
          LET got == Append(load[l].got, monthInsights)
          IN IF isSameMonth
             THEN /\ page' = [Updated(page) EXCEPT !.data = got]
                  /\ SetLoad(l, [load[l] EXCEPT !.pc = "getInsights previous",
                                                !.got = got, !.failed = @ \/ down])
             ELSE /\ page' = [EndLoad(page, load[l].showRefreshToast,
                                      "Report data refreshed")
                                 EXCEPT !.data = Append(got, "null")]
                  /\ SetLoad(l, [load[l] EXCEPT !.pc = "done", !.got = got,
                                                !.failed = @ \/ down])
    /\ UNCHANGED othersThanPage

\* ... from the previous month's insights to the end.
loadMonthlyDataPrev(l) ==
    /\ load[l].pc = "getInsights previous"
    /\ \E down \in BOOLEAN : \E prevMonthInsights \in getInsightsResolves(down) :
          LET got == Append(load[l].got, prevMonthInsights)
          IN /\ page' = [EndLoad(page, load[l].showRefreshToast, "Report data refreshed")
                            EXCEPT !.data = got]
             /\ SetLoad(l, [load[l] EXCEPT !.pc = "done", !.got = got,
                                           !.failed = @ \/ down])
    /\ UNCHANGED othersThanPage

\* The user leaves the page.
PageUnmount ==
    /\ page.mounted
    /\ page' = [page EXCEPT !.mounted = FALSE]
    /\ UNCHANGED <<load, othersThanPage>>

InitPages ==
    /\ session = [user |-> StoreUser, provider_token |-> "tokA"]
    /\ InitServices
    /\ focus = "CommitService"
    /\ calc = NoCalc
    /\ AuthIdle
    /\ page \in {NewPage("Dashboard"), NewPage("Reports")}
    /\ load = [l \in Loads |-> IdleLoad]

NextPages ==
    \/ \E l \in Loads, showRefreshToast \in BOOLEAN : loadDashboardData(l, showRefreshToast)
    \/ \E l \in Loads : loadDashboardDataSleep(l)
    \/ \E l \in Loads : loadDashboardDataStats(l)
    \/ \E l \in Loads : loadDashboardDataInsight(l)
    \/ \E l \in Loads, showRefreshToast \in BOOLEAN : loadMonthlyData(l, showRefreshToast)
    \/ \E l \in Loads : loadMonthlyDataMonth(l)
    \/ \E l \in Loads : loadMonthlyDataPrev(l)
    \/ PageUnmount

SpecPages == InitPages /\ [][NextPages]_vars

\* ------------------------------------------------------------- claims
\* C1: in every reachable state commit_records holds at most one row per
\* (user, commit hash), however often syncCommits is re-run and however the
\* runs of one user overlap.
C1_OneRowPerUserAndHash ==
    \A r1 \in commit_records, r2 \in commit_records :
        (r1.user_id = r2.user_id /\ r1.commit_hash = r2.commit_hash) => r1 = r2

\* C1 witness: two runs of the same user overlap, one has already hit the
\* unique constraint while the other is still inserting.
C1_Witness ==
    \E t1 \in Tasks, t2 \in Tasks :
        /\ t1 # t2
        /\ task[t1].kind = "syncCommits" /\ task[t2].kind = "syncCommits"
        /\ task[t1].user = task[t2].user
        /\ task[t1].cf
        /\ task[t2].pc = "insert"
        /\ commit_records # {}

\* C2 (as claimed): a run whose fetch failed has returned false, and a run
\* that met a failed write (other than a unique-key conflict) has stopped
\* there and returned false.
C2_FailedWriteAbandonsRun ==
    \A t \in Tasks :
        task[t].kind = "syncCommits" =>
            /\ (task[t].pc = "done" /\ ~task[t].fetched) => task[t].res = "false"
            /\ task[t].wf => (task[t].pc = "done" /\ task[t].res = "false")

\* C3: a run that fetched its events and met no failure other than unique-key
\* conflicts has attempted every commit, returns true, and every hash of its
\* events is stored for its user.
C3_ConflictIsNoOp ==
    \A t \in Tasks :
        (task[t].kind = "syncCommits" /\ task[t].pc = "done"
            /\ task[t].fetched /\ ~task[t].wf) =>
            /\ task[t].res = "true"
            /\ task[t].queue = << >>
            /\ \A k \in 1..Len(InsertsOf(task[t].events)) :
                  \E r \in commit_records :
                      /\ r.user_id = task[t].user
                      /\ r.commit_hash = InsertsOf(task[t].events)[k].commit_hash

\* C3 witness: a finished run that met a conflict and inserted a later commit.
C3_Witness ==
    \E t \in Tasks :
        /\ task[t].kind = "syncCommits" /\ task[t].pc = "done"
        /\ task[t].cf /\ task[t].okAfterCf /\ ~task[t].wf
        /\ task[t].res = "true"

\* C8: initialize() called while the client is bound returns at once: it does
\* not ask the Token Provider and leaves the flag and the REST client alone.
C8_InitializeIdempotent ==
    [][\A t \in Tasks :
          (initialized /\ Free(t) /\ task'[t] # task[t]
              /\ task'[t].kind = "initialize") =>
              /\ task'[t].pc = "done"
              /\ task'[t].res = "ok"
              /\ ~task'[t].asked
              /\ UNCHANGED <<initialized, octokit>>]_vars

\* C8 witness: an initialize() that returned without asking for the token.
C8_Witness ==
    \E t \in Tasks :
        /\ task[t].kind = "initialize" /\ task[t].pc = "done"
        /\ ~task[t].asked /\ initialized /\ octokit # Absent

\* C9: an initialize() that gets no token throws the no-token error and binds
\* nothing, and a getCommits or getUserProfile call that finds the client
\* unbound asks for the token again before any request.
C9_NoTokenLeavesUnbound ==
    [][\A t \in Tasks :
          /\ (task[t].pc = "init" /\ task'[t].pc # "init"
                /\ getGitHubToken = Absent) =>
                 /\ task'[t].pc = "done"
                 /\ task'[t].res = (IF task[t].kind = "syncCommits"
                                    THEN "false" ELSE "NoTokenError")
                 /\ UNCHANGED <<initialized, octokit>>
          /\ (Free(t) /\ ~initialized /\ task'[t] # task[t]
                /\ task'[t].kind \in {"getCommits", "getUserProfile"}) =>
                 task'[t].pc = "init"]_vars

\* C9 witness: initialize() failed for want of a token, the client is unbound,
\* and a later getCommits has failed in the same way.
C9_Witness ==
    \E t1 \in Tasks, t2 \in Tasks :
        /\ task[t1].kind = "initialize" /\ task[t1].res = "NoTokenError"
        /\ task[t2].kind = "getCommits" /\ task[t2].res = "NoTokenError"
        /\ ~initialized

\* C10: no request is made with a REST client that was bound before the
\* latest refreshToken() call preceding the request.
C10_RequestsUseReboundClient ==
    \A t \in Tasks : task[t].pc = "request" => ~task[t].stale

\* C10 witness: a refreshToken() failed for want of a token and a request
\* issued after a refreshToken() call is in flight.
C10_Witness ==
    \E t \in Tasks, r \in Tasks :
        /\ task[r].kind = "refreshToken" /\ task[r].res = "NoTokenError"
        /\ task[t].pc = "request" /\ task[t].afterRefresh
        /\ task[t].client = octokit

\* ------------------------------------------------------------- the history of store calls
ReadOps ==
    {"getCommitRecords", "getCommitStats", "getSleepRecords", "getInsights",
     "getLatestInsight"}
IsRead(i) == calls[i].op \in ReadOps
IsWrite(i) == calls[i].op \notin ReadOps
Finished(i) == calls[i].pc = "done"

\* Call i is a read answered by the backing store without error.
StoreRead(i) == IsRead(i) /\ Finished(i) /\ ~calls[i].hit /\ ~calls[i].failed

\* Call w is a write the backing store accepted.
StoreWrite(w) == IsWrite(w) /\ Finished(w) /\ ~calls[w].failed

\* The same operation with the same parameters.
SameRead(i, j) ==
    /\ calls[i].op = calls[j].op
    /\ calls[i].key = calls[j].key
    /\ calls[i].a = calls[j].a
    /\ calls[i].b = calls[j].b

\* Read i was answered by the backing store, on the instance and for the
\* operation and parameters of read j, before j was issued.
Populates(i, j) ==
    /\ i # j
    /\ StoreRead(i)
    /\ calls[i].svc = calls[j].svc
    /\ SameRead(i, j)
    /\ calls[i].e < calls[j].s

\* ... and no later read was.
LastPopulates(i, j) ==
    /\ Populates(i, j)
    /\ ~\E k \in DOMAIN calls : Populates(k, j) /\ calls[k].e > calls[i].e

\* A write through the instance of read j was accepted after read i returned
\* and before j was issued.
ClearedBetween(i, j) ==
    \E w \in DOMAIN calls :
        /\ StoreWrite(w)
        /\ calls[w].svc = calls[j].svc
        /\ calls[i].e < calls[w].e
        /\ calls[w].e < calls[j].s

C5_WriteClearsForEveryConsumer ==
    \A w, j \in DOMAIN calls :
        (/\ StoreWrite(w)
         /\ IsRead(j) /\ Finished(j)
         /\ calls[w].e < calls[j].s
         /\ calls[j].hit)
        => \E k \in DOMAIN calls : Populates(k, j) /\ calls[k].e > calls[w].e

\* C6: a read is served from the cache only when the entry was populated
\* less than 5 minutes before; a read that finds the entry aged 5 minutes or
\* more goes to the backing store; and once a read has been answered by the
\* backing store without error, the entry holds its data and the time of the
\* answer (until a write clears it or a later read replaces it).
C6_EntryServedWhileFresh ==
    /\ \A j \in DOMAIN calls :
          (IsRead(j) /\ calls[j].hit)
          => \E i \in DOMAIN calls :
                /\ LastPopulates(i, j)
                /\ calls[j].at - calls[i].doneAt < CACHE_DURATION
    /\ \A i, j \in DOMAIN calls :
          (/\ IsRead(j) /\ LastPopulates(i, j)
           /\ calls[j].at - calls[i].doneAt >= CACHE_DURATION)
          => ~calls[j].hit
    /\ \A j \in DOMAIN calls :
          (/\ StoreRead(j)
           /\ ~\E k \in DOMAIN calls :
                 /\ calls[k].svc = calls[j].svc
                 /\ calls[k].e > calls[j].e
                 /\ StoreWrite(k) \/ (StoreRead(k) /\ calls[k].key = calls[j].key))
          => /\ calls[j].key \in DOMAIN cache[calls[j].svc]
             /\ cache[calls[j].svc][calls[j].key].timestamp = calls[j].doneAt
             /\ cache[calls[j].svc][calls[j].key].data.rows = calls[j].ret.rows
             /\ cache[calls[j].svc][calls[j].key].data.count = calls[j].ret.count
             /\ cache[calls[j].svc][calls[j].key].data.hours = calls[j].ret.hours

\* A read found the entry 5 minutes old, went to the backing store and
\* replaced it.
C6_Witness ==
    \E i, j \in DOMAIN calls :
        /\ LastPopulates(i, j)
        /\ calls[j].at - calls[i].doneAt >= CACHE_DURATION
        /\ StoreRead(j)
        /\ cache[calls[j].svc][calls[j].key].timestamp = calls[j].doneAt
        /\ calls[j].doneAt > calls[i].doneAt

\* What the claim says a failed operation returns.
Degraded(op) ==
    CASE op \in {"getCommitRecords", "getSleepRecords", "getInsights"} -> Rows(<< >>)
      [] op \in {"getLatestInsight", "addCommitRecord", "addSleepRecord", "upsertInsight",
                 "updateSleepRecord", "updateInsight"} -> Null
      [] op = "deleteSleepRecord" -> Bool(FALSE)
      [] op = "getCommitStats" -> Stats(0, 0)

\* C7: a store call the backing store failed returns to its caller: a range
\* read the empty sequence, a point read, insert, upsert or update null, a
\* delete false, the commit stats count 0 and hours 0.
C7_FailuresDegrade ==
    \A i \in DOMAIN calls :
        (Finished(i) /\ calls[i].failed) => calls[i].ret = Degraded(calls[i].op)

\* A range read, an insert and a delete of the sleep store have failed.
C7_Witness ==
    /\ \E i \in DOMAIN calls :
          calls[i].op = "getSleepRecords" /\ calls[i].failed /\ calls[i].ret = Rows(<< >>)
    /\ \E i \in DOMAIN calls :
          calls[i].op = "addSleepRecord" /\ calls[i].failed /\ calls[i].ret = Null
    /\ \E i \in DOMAIN calls :
          calls[i].op = "deleteSleepRecord" /\ calls[i].failed /\ calls[i].ret = Bool(FALSE)

\* C11 as stated: every event getCommits returns is a push event with a
\* non-empty commit list.
C11_OnlyPushEventsWithCommits ==
    \A t \in Tasks :
        (task[t].kind = "getCommits" /\ task[t].fetched)
        => \A k \in 1..Len(task[t].events) :
              /\ task[t].events[k].type = "PushEvent"
              /\ task[t].events[k].commitsKey = "list"
              /\ task[t].events[k].commits # << >>

\* The local calendar day and the clock hour of a timestamp.
LocalDay(h) == (h + TimeZoneOffset) \div 24
ClockHour(h) == (h + TimeZoneOffset) % 24

\* The user's commit rows of the local calendar day of date.
RowsOfLocalDay(userId, date) ==
    {r \in commit_records :
        r.user_id = userId /\ LocalDay(r.commit_timestamp) = LocalDay(date)}

\* C12: getCommitStats answered by the backing store returns as count the
\* number of the user's commit rows of the local calendar day of date, and as
\* hours the number of distinct clock hours among their timestamps.
C12_StatsOfLocalDay ==
    \A i \in DOMAIN calls :
        (calls[i].op = "getCommitStats" /\ StoreRead(i))
        => LET rows == RowsOfLocalDay(calls[i].key[2], calls[i].a)
           IN /\ calls[i].ret.tag = "stats"
              /\ calls[i].ret.count = Cardinality(rows)
              /\ calls[i].ret.hours =
                    Cardinality({ClockHour(r.commit_timestamp) : r \in rows})

\* Three commits of one day in two clock hours, a fourth on the next local
\* day: count 3 and hours 2.
C12_Witness ==
    \E i \in DOMAIN calls :
        /\ calls[i].op = "getCommitStats" /\ StoreRead(i)
        /\ Cardinality({r \in commit_records : r.user_id = StoreUser}) = 3
        /\ Cardinality({r \in commit_records : r.user_id # StoreUser}) = 1
        /\ calls[i].ret = Stats(3, 2)

\* ------------------------------------------------------------- derived figures
\* C13: getPercentageChange(current, previous) is (current - previous) / previous
\* * 100 when previous is not 0, each operation rounded as the engine rounds it,
\* and is exactly 100 when previous is 0.
C13_PercentageChange ==
    calc.fn = "renderTrend"
    => LET current == calc.in[1]
           previous == calc.in[2]
           change == calc.out.change
       IN IF previous = 0 THEN change = Num(100)
          ELSE LET quotient == Round(current - previous, previous)
               IN /\ FracEq(change, Round(quotient.num * 100, quotient.den))
                  /\ (change.num >= 0) <=> (current >= previous)

C13_Witness ==
    /\ calc.fn = "renderTrend"
    /\ calc.in = <<0, 0>>
    /\ calc.out.change = Num(100)

\* C14: the consistency score is 0 for fewer than two insights; otherwise one
\* point per adjacent pair of days and per score whose two values differ by
\* strictly less than 20, a missing score counting as 0, and the score is
\* points / (2 * (n - 1)) * 100; two identical days score 100.
ScoreFields == {"sleep_score", "productivity_score"}
ConsistentPairs(data) ==
    {pair \in (2..Len(data)) \X ScoreFields :
        LET before == data[pair[1] - 1][pair[2]]
            after == data[pair[1]][pair[2]]
        IN Abs((IF before = << >> THEN 0 ELSE before[1])
               - (IF after = << >> THEN 0 ELSE after[1])) < 20}

C14_ConsistencyScore ==
    calc.fn = "setMonthlyStats"
    => LET data == calc.in
           n == Len(data)
           score == calc.out.consistencyScore
           points == Cardinality(ConsistentPairs(data))
       IN /\ n < 2 => score = Num(0)
          /\ n >= 2 => LET quotient == Round(points, 2 * (n - 1))
                       IN FracEq(score, Round(quotient.num * 100, quotient.den))
          /\ (n = 2 /\ data[1] = data[2]) => score = Num(100)

\* Three days: a missing score next to 10 makes a point, 50 next to 70 does not.
C14_Witness ==
    /\ calc.fn = "setMonthlyStats"
    /\ Len(calc.in) = 3
    /\ calc.in[1].sleep_score = << >> /\ calc.in[2].sleep_score = <<10>>
    /\ calc.in[2].productivity_score = <<50>> /\ calc.in[3].productivity_score = <<70>>
    /\ calc.in[1].productivity_score = <<50>> /\ calc.in[3].sleep_score = <<10>>
    /\ FracEq(calc.out.consistencyScore, Num(75))

\* The averages of a computed figure, each with the values it averages.
Rated(rows, field) ==
    [k \in 1..Len(rows) |-> Num(IF rows[k][field] = << >> THEN 0 ELSE rows[k][field][1])]
IntegerAverages ==
    CASE calc.fn = "Sleep" -> {<<calc.out.averageQuality, Rated(calc.in, "quality_score")>>}
      [] calc.fn = "setMonthlyStats" ->
            {<<calc.out.avgSleep, Rated(calc.in, "sleep_score")>>,
             <<calc.out.avgProductivity, Rated(calc.in, "productivity_score")>>}
      [] OTHER -> {}
DurationAverages ==
    IF calc.fn \in {"Sleep", "Dashboard"}
    THEN {<<calc.out.averageSleepDuration,
            [k \in 1..Len(calc.in) |-> calc.in[k].duration_hours]>>}
    ELSE {}

Least(values) ==
    CHOOSE v \in {values[k] : k \in DOMAIN values} :
        \A k \in DOMAIN values : FracLeq(v, values[k])
Greatest(values) ==
    CHOOSE v \in {values[k] : k \in DOMAIN values} :
        \A k \in DOMAIN values : FracLeq(values[k], v)
WithinMinMax(average, values) ==
    IF Len(values) = 0 THEN average = Num(0)
    ELSE FracLeq(Least(values), average) /\ FracLeq(average, Greatest(values))

C16_WeeksPartitionTheMonth ==
    calc.fn = "weeklyData"
    => /\ \A k \in 1..Len(calc.in) :
             Cardinality({w \in DOMAIN calc.out :
                             \E j \in DOMAIN calc.out[w].weekInsights :
                                 calc.out[w].weekInsights[j] = calc.in[k]}) = 1
       /\ FracEq(ReduceSum([w \in DOMAIN calc.out |-> calc.out[w].commits]),
                 ReduceSum([k \in DOMAIN calc.in |-> Num(calc.in[k].commit_count)]))

\* ------------------------------------------------------------- AuthProvider and sync
\* C17: at most one run of syncCommits is in flight at any time.
SyncsInFlight == {t \in Tasks : task[t].kind = "syncCommits" /\ ~Free(t)}
C17_OneSyncInFlight == Cardinality(SyncsInFlight) <= 1

\* C20: a flow in which syncCommits returned false does not end with
\* initializeGitHub reporting success, nor with the announcement of a
\* successful authentication or token refresh.
C20_FailedSyncIsNotReportedAsSuccess ==
    \A f \in Flows :
        (flow[f].pc = "done" /\ flow[f].sync = "false")
        => /\ flow[f].githubInitialized # "true"
           /\ flow[f].toast \notin {"Successfully authenticated with GitHub",
                                    "Token refreshed successfully"}

\* ------------------------------------------------------------- page loads
\* C18: once the page has been unmounted, a load that completes makes no
\* state update.
C18_NoUpdateAfterUnmount == ~page.updatedAfterUnmount

\* C19: a load in which a backing-store read failed ends in the error state
\* (the view with 'Try Again') and with the failure notification.
FailureToasts == {"Failed to load dashboard data", "Failed to load report data"}
C19_FailedReadShowsError ==
    \A l \in Loads :
        (load[l].pc = "done" /\ load[l].failed
         /\ \A m \in Loads : load[m].pc \in {"idle", "done"})
        => /\ page.error # Absent
           /\ page.toasts \cap FailureToasts # {}

\* ------------------------------------------------------------- later claims on figures and stats
\* C30: calculateConsistencyScore gives the same value for a sequence of
\* daily insights and for its reverse.
Reverse(seq) == [k \in 1..Len(seq) |-> seq[Len(seq) + 1 - k]]
C30_ScoreOfReverse ==
    calc.fn = "setMonthlyStats"
    => FracEq(calc.out.consistencyScore, calculateConsistencyScore(Reverse(calc.in)))

\* Three days that differ from their reverse, with one point of four.
C30_Witness ==
    /\ calc.fn = "setMonthlyStats"
    /\ Len(calc.in) = 3
    /\ calc.in # Reverse(calc.in)
    /\ calc.in[1].sleep_score = <<70>> /\ calc.in[2].sleep_score = <<50>>
    /\ calc.in[3].sleep_score = <<10>>
    /\ FracEq(calc.out.consistencyScore, Num(25))

\* C29: in every result of getCommitStats hours is at most count and at most
\* 24, and hours is at least 1 whenever count is at least 1.
C29_HoursWithinCount ==
    \A i \in DOMAIN calls :
        (calls[i].op = "getCommitStats" /\ Finished(i))
        => /\ calls[i].ret.tag = "stats"
           /\ calls[i].ret.hours <= calls[i].ret.count
           /\ calls[i].ret.hours <= 24
           /\ calls[i].ret.count >= 1 => calls[i].ret.hours >= 1

\* Two commits of one clock hour: count 2, hours 1.
C29_Witness ==
    \E i \in DOMAIN calls :
        /\ calls[i].op = "getCommitStats" /\ Finished(i)
        /\ calls[i].ret.count = 2
        /\ calls[i].ret.hours = 1

\* C24: a result of getCommitStats served from the cache is the statistics of
\* the local calendar day asked for, and two calls with dates of different
\* local calendar days do not share a cache entry.
C24_CachedStatsOfLocalDay ==
    \A i \in DOMAIN calls :
        (calls[i].op = "getCommitStats" /\ Finished(i) /\ calls[i].hit)
        => LET rows == RowsOfLocalDay(calls[i].key[2], calls[i].a)
           IN /\ calls[i].ret.count = Cardinality(rows)
              /\ calls[i].ret.hours =
                    Cardinality({ClockHour(r.commit_timestamp) : r \in rows})
              /\ \A j \in DOMAIN calls :
                    (calls[j].op = "getCommitStats"
                     /\ LocalDay(calls[j].a) # LocalDay(calls[i].a))
                    => calls[j].key # calls[i].key

\* ------------------------------------------------------------- failed store operations
\* C25: a store operation that fails leaves the cache of its store as it was;
\* an entry a read is served from was put there by a read the backing store
\* answered without error, never by a failed one.
FailsNow(i) == calls[i].pc = "store" /\ calls'[i].pc = "done" /\ calls'[i].failed
ServedFromStoreRead ==
    \A j \in DOMAIN calls : calls[j].hit => \E k \in DOMAIN calls : Populates(k, j)
C25_FailureLeavesCache ==
    [][/\ (\E i \in DOMAIN calls : FailsNow(i)) => cache' = cache
       /\ ServedFromStoreRead']_vars

\* A write fails while the cache of its instance holds an entry, and a read
\* fails and the same read made again goes to the backing store.
C25_Witness ==
    /\ \E w \in DOMAIN calls :
          /\ IsWrite(w) /\ Finished(w) /\ calls[w].failed
          /\ cache[calls[w].svc] # EmptyMap
    /\ \E i, j \in DOMAIN calls :
          /\ IsRead(i) /\ Finished(i) /\ calls[i].failed
          /\ IsRead(j) /\ SameRead(i, j) /\ calls[i].svc = calls[j].svc
          /\ calls[i].e < calls[j].s /\ ~calls[j].hit

\* ------------------------------------------------------------- sync after initialization
\* C21: a flow of the provider calls syncCommits only when there is a session
\* and the REST client is bound to the token of that session; a flow whose
\* initialization failed has called no syncCommits.
SyncCalls == {"gh_sync", "rt_sync"}
CallsSync(f) == flow[f].pc \notin SyncCalls /\ flow'[f].pc \in SyncCalls
C21_SyncAfterInitializeForSession ==
    [][/\ \A f \in Flows :
             CallsSync(f) => /\ session.user # Absent
                             /\ octokit # Absent
                             /\ octokit = session.provider_token
       /\ \A f \in Flows :
             flow'[f].githubInitialized = "false" => flow'[f].sync = "none"]_vars

\* ------------------------------------------------------------- token of a request
\* C23: a request is issued with the token of the current session, whatever
\* sessions came before and whether or not refreshToken() was ever called.
IssuesRequest(t) == task[t].pc # "request" /\ task'[t].pc = "request"
C23_RequestBearsSessionToken ==
    [][\A t \in Tasks :
          IssuesRequest(t) => task'[t].client = session'.provider_token]_vars

\* ------------------------------------------------------------- commit rows
\* C22: in every step each commit row that exists is still there afterwards
\* with the same user, repository, hash and timestamp, and a step that changes
\* the commit table is an insert of a syncCommits run.
RowKept(r) ==
    \E q \in commit_records' :
        /\ q.id = r.id /\ q.user_id = r.user_id /\ q.repository = r.repository
        /\ q.commit_hash = r.commit_hash /\ q.commit_timestamp = r.commit_timestamp
C22_CommitRowsOnlyGrow ==
    [][/\ \A r \in commit_records : RowKept(r)
       /\ commit_records' # commit_records
             => \E t \in Tasks : task[t].kind = "syncCommits" /\ task[t].pc = "insert"]_vars

\* Rows of a first identity are there after a sync of a second identity has
\* added its own: a sign-in as another user lies between the two.
C22_Witness ==
    /\ \E r, q \in commit_records : r.user_id # q.user_id /\ r.commit_hash = q.commit_hash
    /\ \E f \in Flows : flow[f].kind = "onAuthStateChange" /\ flow[f].pc = "done"

\* ------------------------------------------------------------- Sleep page
\* The Sleep page as constructed: useState([]), useState(true), useState(false).
NewSleepPage ==
    [kind |-> "Sleep", mounted |-> TRUE, loading |-> TRUE, sleepRecords |-> {},
     showAddModal |-> FALSE, toasts |-> {}, updatedAfterUnmount |-> FALSE]

\* A run of handleAddSleep or loadSleepData: what it was called with, whether
\* its insert put a row in the table, and what it told the user.
IdleRun ==
    [kind |-> "none", pc |-> "idle", record |-> NoRecord, stored |-> FALSE,
     rejected |-> FALSE, toast |-> "none", closedModal |-> FALSE]

\* What the form can hold: a date with no record yet, and the same or another
\* date again.
SleepForms ==
    SleepInserts \cup {[user_id |-> StoreUser, date |-> 1, quality_score |-> 60]}

othersThanSleepPage ==
    <<clientVars, task, commit_records, activity_insights, now, calls, ev, focus,
      calc, auth, flow>>

\* onClick={() => setShowAddModal(true)}
openAddModal ==
    /\ page.kind = "Sleep" /\ page.mounted
    /\ ~page.showAddModal
    /\ page' = [page EXCEPT !.showAddModal = TRUE]
    /\ UNCHANGED <<load, sleep_records, cache, othersThanSleepPage>>

\* loadSleepData() up to `await sleepService.getSleepRecords(...)`.
loadSleepData(l) ==
    /\ page.kind = "Sleep" /\ page.mounted
    /\ session.user # Absent
    /\ load[l].pc = "idle"
    /\ SetLoad(l, [IdleRun EXCEPT !.kind = "loadSleepData", !.pc = "getSleepRecords"])
    /\ UNCHANGED <<page, sleep_records, cache, othersThanSleepPage>>

\* ... from the records on: setSleepRecords(records), and setLoading(false) of
\* the finally block.  getSleepRecords resolves to [] when the read fails.
loadSleepDataRecords(l) ==
    /\ load[l].pc = "getSleepRecords"
    /\ \E down \in BOOLEAN :
          LET records == IF down THEN {}
                         ELSE {r \in sleep_records : r.user_id = session.user}
          IN page' = [Updated(page) EXCEPT !.sleepRecords = records, !.loading = FALSE]
    /\ SetLoad(l, [load[l] EXCEPT !.pc = "done"])
    /\ UNCHANGED <<sleep_records, cache, othersThanSleepPage>>

\* handleAddSleep(e) up to `await sleepService.addSleepRecord(...)`.
handleAddSleep(l, formData) ==
    /\ page.kind = "Sleep" /\ page.mounted /\ page.showAddModal
    /\ session.user # Absent
    /\ load[l].pc = "idle"
    /\ SetLoad(l, [IdleRun EXCEPT !.kind = "handleAddSleep", !.pc = "addSleepRecord",
                                  !.record = [formData EXCEPT !.user_id = session.user]])
    /\ UNCHANGED <<page, sleep_records, cache, othersThanSleepPage>>

\* The value is not looked at: toast.success, setShowAddModal(false) and
\* loadSleepData() follow whatever it is.
AfterAddSleepRecord(run, p, ret) ==
    [run |-> [run EXCEPT !.pc = "getSleepRecords", !.stored = ~ret.error,
                         !.rejected = ret.error,
                         !.toast = "Sleep record added successfully",
                         !.closedModal = TRUE],
     page |-> [Updated(p) EXCEPT !.showAddModal = FALSE,
                                 !.toasts = @ \cup {"Sleep record added successfully"}]]

\* ... from the answer of the insert on: addSleepRecord returns the row, or
\* null when the insert failed, and handleAddSleep goes on up to the await
\* inside the loadSleepData() it calls.
handleAddSleepAdded(l) ==
    /\ load[l].kind = "handleAddSleep" /\ load[l].pc = "addSleepRecord"
    /\ \E down \in BOOLEAN :
          LET ret == IF down THEN [error |-> TRUE, rows |-> sleep_records]
                     ELSE InsertSleepRecord(sleep_records, load[l].record,
                                            Cardinality(sleep_records) + 1)
              after == AfterAddSleepRecord(load[l], page, ret)
          IN /\ sleep_records' = ret.rows
             /\ cache' = IF ret.error THEN cache ELSE CacheClear("Sleep.sleepService")
             /\ page' = after.page
             /\ SetLoad(l, after.run)
    /\ UNCHANGED othersThanSleepPage

\* The Sleep page is mounted for the signed-in user.
InitSleep ==
    /\ session = [user |-> StoreUser, provider_token |-> "tokA"]
    /\ InitServices
    /\ focus = "SleepService"
    /\ calc = NoCalc
    /\ AuthIdle
    /\ page = NewSleepPage
    /\ load = [l \in Loads |-> IdleRun]

NextSleep ==
    \/ openAddModal
    \/ \E l \in Loads : loadSleepData(l)
    \/ \E l \in Loads : loadSleepDataRecords(l)
    \/ \E l \in Loads, formData \in SleepForms : handleAddSleep(l, formData)
    \/ \E l \in Loads : handleAddSleepAdded(l)
    \/ PageUnmount

SpecSleep == InitSleep /\ [][NextSleep]_vars

\* C27: a run of handleAddSleep announces 'Sleep record added successfully'
\* and closes the form only when its record was stored, and a run whose insert
\* was rejected tells the user that adding failed.
C27_SuccessOnlyWhenStored ==
    \A l \in Loads :
        load[l].kind = "handleAddSleep" =>
            /\ load[l].toast = "Sleep record added successfully" => load[l].stored
            /\ load[l].closedModal => load[l].stored
            /\ load[l].rejected => load[l].toast = "Failed to add sleep record"

\* ------------------------------------------------------------- Reports, month by month
\* Months are counted from the one of new Date(); the select offers it and
\* the months before it.
CurrentMonth == 0
ReportMonths == {CurrentMonth - 1, CurrentMonth}

\* What the page holds of a month: its insights (or [] of a failed read) and
\* the figures computed from them.
NoMonth == [of |-> "none", rows |-> "[]"]
MonthData(month, rows) == [of |-> <<month>>, rows |-> rows]

\* The Reports page as constructed, its effect not yet run.
NewReports ==
    [kind |-> "Reports", mounted |-> TRUE, loading |-> TRUE, refreshing |-> FALSE,
     error |-> Absent, selectedMonth |-> CurrentMonth, effectRan |-> FALSE,
     insights |-> NoMonth, monthlyStats |-> NoMonth, previousMonthStats |-> NoMonth,
     toasts |-> {}, updatedAfterUnmount |-> FALSE]

\* A run of loadMonthlyData: selectedMonth is the one of the render that
\* created the function.
IdleMonthLoad == [pc |-> "idle", selectedMonth |-> CurrentMonth, showRefreshToast |-> FALSE]
MonthLoadsInFlight == {l \in Loads : load[l].pc \notin {"idle", "done"}}

\* loadMonthlyData(showRefreshToast) of the current render up to
\* `await getInsights(start, end)`.
StartMonthLoad(l, p, showRefreshToast) ==
    /\ load[l].pc \in {"idle", "done"}
    /\ page' = StartLoad(p, showRefreshToast)
    /\ SetLoad(l, [pc |-> "getInsights", selectedMonth |-> p.selectedMonth,
                   showRefreshToast |-> showRefreshToast])

\* useEffect(..., [user, selectedMonth]) after the first render.
ReportsMounted(l) ==
    /\ page.kind = "Reports" /\ page.mounted
    /\ ~page.effectRan
    /\ session.user # Absent
    /\ StartMonthLoad(l, [page EXCEPT !.effectRan = TRUE], FALSE)
    /\ UNCHANGED othersThanPage

\* onChange of the month select, and the effect the new selectedMonth runs.
\* The select is on the page when neither the error view nor the spinner is.
setSelectedMonth(l, month) ==
    /\ page.kind = "Reports" /\ page.mounted /\ page.effectRan
    /\ page.error = Absent /\ ~page.loading
    /\ month # page.selectedMonth
    /\ session.user # Absent
    /\ StartMonthLoad(l, [page EXCEPT !.selectedMonth = month], FALSE)
    /\ UNCHANGED othersThanPage

\* handleRefresh: the refresh button is disabled while refreshing.
handleRefresh(l) ==
    /\ page.kind = "Reports" /\ page.mounted /\ page.effectRan
    /\ page.error = Absent /\ ~page.loading /\ ~page.refreshing
    /\ session.user # Absent
    /\ StartMonthLoad(l, page, TRUE)
    /\ UNCHANGED othersThanPage

\* ... from the month's insights on: setInsights, setMonthlyStats, and for the
\* current month up to `await getInsights(prevStart, prevEnd)`, for another
\* month setPreviousMonthStats(null) and the end.
loadMonthlyDataInsights(l) ==
    /\ page.kind = "Reports"
    /\ load[l].pc = "getInsights"
    /\ \E down \in BOOLEAN : \E rows \in getInsightsResolves(down) :
          LET month == load[l].selectedMonth
              shown == [Updated(page) EXCEPT !.insights = MonthData(month, rows),
                                             !.monthlyStats = MonthData(month, rows)]
          IN IF month = CurrentMonth
             THEN /\ page' = shown
                  /\ SetLoad(l, [load[l] EXCEPT !.pc = "getInsights previous"])
             ELSE /\ page' = [EndLoad(shown, load[l].showRefreshToast,
                                      "Report data refreshed")
                                 EXCEPT !.previousMonthStats = NoMonth]
                  /\ SetLoad(l, [load[l] EXCEPT !.pc = "done"])
    /\ UNCHANGED othersThanPage

\* ... from the previous month's insights to the end.
loadMonthlyDataPrevious(l) ==
    /\ page.kind = "Reports"
    /\ load[l].pc = "getInsights previous"
    /\ \E down \in BOOLEAN : \E rows \in getInsightsResolves(down) :
          page' = [EndLoad(page, load[l].showRefreshToast, "Report data refreshed")
                      EXCEPT !.previousMonthStats =
                                 MonthData(load[l].selectedMonth - 1, rows)]
    /\ SetLoad(l, [load[l] EXCEPT !.pc = "done"])
    /\ UNCHANGED othersThanPage

InitReports ==
    /\ session = [user |-> StoreUser, provider_token |-> "tokA"]
    /\ InitServices
    /\ focus = "InsightService"
    /\ calc = NoCalc
    /\ AuthIdle
    /\ page = NewReports
    /\ load = [l \in Loads |-> IdleMonthLoad]

NextReports ==
    \/ \E l \in Loads : ReportsMounted(l)
    \/ \E l \in Loads, month \in ReportMonths : setSelectedMonth(l, month)
    \/ \E l \in Loads : handleRefresh(l)
    \/ \E l \in Loads : loadMonthlyDataInsights(l)
    \/ \E l \in Loads : loadMonthlyDataPrevious(l)
    \/ PageUnmount

SpecReports == InitReports /\ [][NextReports]_vars

\* C26: once every load that was started has completed, the insights, the
\* monthly figures and the comparison the Reports page holds are those of the
\* month that is selected (a comparison with the month before for the current
\* month, none for another month).
C26_ShowsSelectedMonth ==
    (/\ page.kind = "Reports" /\ page.effectRan
     /\ MonthLoadsInFlight = {})
    => /\ page.insights.of = <<page.selectedMonth>>
       /\ page.monthlyStats.of = <<page.selectedMonth>>
       /\ page.previousMonthStats.of =
             IF page.selectedMonth = CurrentMonth
             THEN <<page.selectedMonth - 1>> ELSE "none"

\* ------------------------------------------------------------- Dashboard under the provider
\* useEffect(() => { if (user) loadDashboardData() }, [user]): user is the one
\* of the context, set by initializeAuth.
DashboardEffect(l) ==
    /\ auth.user # Absent
    /\ \A k \in Loads : load[k].pc = "idle"
    /\ loadDashboardData(l, FALSE)

\* What the Dashboard renders first: the error view, else the spinner.
ErrorView == page.error # Absent
Spinner == ~ErrorView /\ (auth.loading \/ page.loading)

\* handleRefresh: the button is on the page when it shows the data, and is
\* disabled while refreshing.
DashboardRefresh(l) ==
    /\ auth.user # Absent
    /\ ~ErrorView /\ ~Spinner /\ page.githubConnected /\ ~page.refreshing
    /\ load[l].pc \in {"idle", "done"}
    /\ page' = StartLoad(page, TRUE)
    /\ SetLoad(l, [IdleLoad EXCEPT !.pc = "getSleepRecords", !.showRefreshToast = TRUE])
    /\ UNCHANGED othersThanPage

\* The provider runs initializeAuth, the Dashboard its effect and its loads.
ProviderSteps ==
    \/ \E f \in Flows, t \in Tasks : initializeAuth(f, t)
    \/ \E f \in Flows : initializeGitHubInitialized(f)
    \/ \E f \in Flows, t \in Tasks : initializeGitHubToken(f, t)
    \/ \E f \in Flows : initializeGitHubSynced(f)
    \/ \E t \in Tasks : initializeResume(t)
    \/ \E t \in Tasks : syncCommitsFetched(t)
    \/ \E t \in Tasks : syncCommitsInsert(t)

LoadSteps ==
    \/ \E l \in Loads : DashboardEffect(l)
    \/ \E l \in Loads : loadDashboardDataSleep(l)
    \/ \E l \in Loads : loadDashboardDataStats(l)
    \/ \E l \in Loads : loadDashboardDataInsight(l)

NextDashboard ==
    \/ ProviderSteps
    \/ LoadSteps
    \/ \E l \in Loads : DashboardRefresh(l)

SpecDashboard == InitAuth /\ [][NextDashboard]_vars

\* Every await is answered and every effect is run; a refresh is up to the
\* user.
SpecDashboardFair ==
    SpecDashboard /\ WF_vars(ProviderSteps) /\ WF_vars(LoadSteps)

\* C28: the Dashboard leaves the spinner in every run, with or without a
\* signed-in user, and when no load is in flight after one was started,
\* loading and refreshing are both false.
LoadsSettled ==
    /\ \A l \in Loads : load[l].pc \in {"idle", "done"}
    /\ \E l \in Loads : load[l].pc = "done"
C28_LeavesLoading ==
    /\ <>(~Spinner)
    /\ [](LoadsSettled => (~page.loading /\ ~page.refreshing))

====
